---- MODULE Spec2Model ----
(***************************************************************************)
(* Model of the audio assembly core of modulvocal:                         *)
(*   - AudioMixerService.mixAudioSegments / normalizeBuffer /              *)
(*     exportToBuffer (src/src/services/audioMixerService.ts)              *)
(*   - calculateSegmentTiming (src/unnamed/part_002)                       *)
(*   - getVoiceSettings, calculateEmotionTransitionDuration                *)
(*     (src/src/services/elevenlabs/voiceSettings.ts)                      *)
(*   - addBreathingAndPauses (src/src/services/elevenlabs/ssmlGenerator.ts)*)
(*   - the effects and handlers of VoicePlayer (src/unnamed/part_003) and  *)
(*     AudioMixerService.stopAll / resume / suspend                        *)
(*                                                                         *)
(* Numbers of the program are IEEE doubles; the model computes with exact  *)
(* rationals <<n, d>> (d > 0, lowest terms), so rounding of individual     *)
(* floating-point operations is not represented.  Integer conversions of   *)
(* the encoder (DataView.setInt16 / setUint16 / setUint32) are modelled    *)
(* with their truncation and their wrap-around.                            *)
(***************************************************************************)
EXTENDS Integers, Sequences, FiniteSets, TLC

VARIABLES
    \* ---- one mixAudioSegments operation ----
    pc,            \* position of the async function
    segments,      \* the caller's array object (sorted in place by the code)
    input,         \* the array as it was passed (history)
    world,         \* what fetch + decodeAudioData yield for each audioUrl
    idx,           \* loop variable i of the segment loop
    totalDuration, \* local totalDuration
    totalSamples,  \* local totalSamples
    mixBuffer,     \* channel data of mixBuffer (<<>> while not allocated)
    preNorm,       \* mixBuffer as it was when normalizeBuffer was called (history)
    applied,       \* per mixed segment, the locals of lines 205-241 (history)
    finalBuffer,   \* bytes returned by exportToBuffer (<<>> before)
    fetchCount,    \* number of fetchAudioBuffer calls issued
    urlCount,      \* number of URL.createObjectURL calls
    result,        \* the MixedAudioResult the promise resolved with (<<>> = none)
    error,         \* the error the promise rejected with ("" = none)
    \* ---- one calculateSegmentTiming call ----
    tPc, tInput, tOptions, tOutput,
    \* ---- one exportToBuffer call on an arbitrary AudioBuffer ----
    ePc, eBuffer, eBytes, eWrites,
    \* ---- one getVoiceSettings call ----
    vPc, vEmotion, vAnalysis, vSettings,
    \* ---- one addBreathingAndPauses call ----
    sPc, sText, sAnalysis,
    sStages,       \* the value of `text` after each statement (history)
    \* ---- the VoicePlayer component and the singleton's playback state ----
    pStage,        \* "unmounted", "mounted" or "gone"
    pAudioUrl,     \* prop audioUrl ("" = null)
    pEnvironment,  \* prop environment
    pListeners,    \* play/pause/ended handlers are attached to the <audio> element
    elPlaying,     \* the <audio> element is playing (!paused)
    ctxState,      \* audioContext.state
    pendingCalls,  \* audioContext.resume()/suspend() promises not yet settled
    lastEvent,     \* last play/pause event of the element ("none" before any)
    segmentNodes,  \* keys of the Map segmentNodes
    environmentNodes, \* keys of the Map environmentNodes
    pLog,          \* load() and stopAll() calls in program order (history)
    pRenders,      \* number of prop changes so far
    pEvents,       \* number of element events so far
    \* ---- two mixAudioSegments operations in flight on the singleton ----
    cArrays,       \* the array objects of the callers
    cArg,          \* cArg[p]: the array object passed by operation p
    cWorld,        \* what fetch + decodeAudioData yield for each audioUrl
    cInput,        \* cInput[p]: the array as it was when p was called (history)
    cPc, cIdx, cTotalDuration, cTotalSamples, cMix, cFinal, cResult,
    cError         \* the locals and the outcome of each operation

mixVars == <<pc, segments, input, world, idx, totalDuration, totalSamples,
             mixBuffer, preNorm, applied, finalBuffer, fetchCount, urlCount,
             result, error>>
timingVars == <<tPc, tInput, tOptions, tOutput>>
exportVars == <<ePc, eBuffer, eBytes, eWrites>>
voiceVars == <<vPc, vEmotion, vAnalysis, vSettings>>
markupVars == <<sPc, sText, sAnalysis, sStages>>
playerVars == <<pStage, pAudioUrl, pEnvironment, pListeners, elPlaying, ctxState,
                pendingCalls, lastEvent, segmentNodes, environmentNodes, pLog,
                pRenders, pEvents>>
concVars == <<cArrays, cArg, cWorld, cInput, cPc, cIdx, cTotalDuration,
              cTotalSamples, cMix, cFinal, cResult, cError>>
vars == <<mixVars, timingVars, exportVars, voiceVars, markupVars, playerVars,
          concVars>>

----------------------------------------------------------------------------
(* Bounds of the model *)

MaxSegs == 3        \* longest segment list given to mixAudioSegments
SampleRate == 10    \* audioContext.sampleRate of the mixer (scaled down)
MaxTimingSegs == 3  \* longest list given to calculateSegmentTiming
MaxTextLen == 3     \* longest segment text
MaxFrames == 2      \* longest AudioBuffer given directly to exportToBuffer
MaxMarkupLen == 2   \* longest freely composed text given to addBreathingAndPauses
MaxRenders == 3     \* most prop changes of one mounted VoicePlayer
MaxEvents == 3      \* most play/pause/ended events of the <audio> element
MaxConcSegs == 2    \* longest list given to each of two concurrent operations

----------------------------------------------------------------------------
(* Exact rational arithmetic *)

RECURSIVE GCD(_, _)
GCD(a, b) == IF b = 0 THEN a ELSE GCD(b, a % b)

IAbs(n) == IF n < 0 THEN -n ELSE n

Rat(n, d) ==
    LET s == IF d < 0 THEN -1 ELSE 1
        g == GCD(IAbs(n), IAbs(d))
    IN  <<(s * n) \div g, (s * d) \div g>>

Zero == <<0, 1>>
One == <<1, 1>>
RInt(n) == <<n, 1>>
RAdd(x, y) == Rat(x[1] * y[2] + y[1] * x[2], x[2] * y[2])
RSub(x, y) == Rat(x[1] * y[2] - y[1] * x[2], x[2] * y[2])
RMul(x, y) == Rat(x[1] * y[1], x[2] * y[2])
RDiv(x, y) == Rat(x[1] * y[2], x[2] * y[1])
RLt(x, y) == x[1] * y[2] < y[1] * x[2]
RLe(x, y) == x[1] * y[2] <= y[1] * x[2]
RAbs(x) == <<IAbs(x[1]), x[2]>>
RMax(x, y) == IF RLt(x, y) THEN y ELSE x
RMin(x, y) == IF RLt(y, x) THEN y ELSE x
Floor(x) == x[1] \div x[2]
Ceil(x) == -((-x[1]) \div x[2])
Trunc(x) == IF x[1] < 0 THEN -((-x[1]) \div x[2]) ELSE x[1] \div x[2]

(* An optional field is <<>> when absent and <<v>> when present.           *)
(* Truthy(o): the JavaScript test applied by `o || default`.               *)
Truthy(o) == o # <<>> /\ o[1] # Zero
OrElse(o, dflt) == IF Truthy(o) THEN o[1] ELSE dflt

----------------------------------------------------------------------------
(* Container encoder: exportToBuffer *)

Int16Scale == 32767

\* byte k (0 = least significant) of the two's-complement image of v
ByteOf(v, k) == IF k = 0 THEN v % 256
                ELSE IF k = 1 THEN (v \div 256) % 256
                ELSE IF k = 2 THEN (v \div 65536) % 256
                ELSE (v \div 16777216) % 256

\* writeString(offset, string): one byte per character code
RiffTag == <<82, 73, 70, 70>>
WaveTag == <<87, 65, 86, 69>>
FmtTag == <<102, 109, 116, 32>>
DataTag == <<100, 97, 116, 97>>

ExportDataLength(buffer) == buffer.length * buffer.numberOfChannels * 2

\* view.setUint32(4, 36 + length, true)
RiffSizeWholeFile(length) == 44 + length
RiffSize(length) == 36 + length

\* the header writes: byte offset -> value, for offsets 0..43
HeaderByte(buffer, o) ==
    LET length == ExportDataLength(buffer)
        ch == buffer.numberOfChannels
        sr == buffer.sampleRate
    IN  CASE o \in 0..3   -> RiffTag[o + 1]
          [] o \in 4..7   -> ByteOf(RiffSize(length), o - 4)
          [] o \in 8..11  -> WaveTag[o - 7]
          [] o \in 12..15 -> FmtTag[o - 11]
          [] o \in 16..19 -> ByteOf(16, o - 16)
          [] o \in 20..21 -> ByteOf(1, o - 20)
          [] o \in 22..23 -> ByteOf(ch, o - 22)
          [] o \in 24..27 -> ByteOf(sr, o - 24)
          [] o \in 28..31 -> ByteOf(sr * ch * 2, o - 28)
          [] o \in 32..33 -> ByteOf(ch * 2, o - 32)
          [] o \in 34..35 -> ByteOf(16, o - 34)
          [] o \in 36..39 -> DataTag[o - 35]
          [] o \in 40..43 -> ByteOf(length, o - 40)

\* Math.max(-1, Math.min(1, x))
ClampNoop(x) == x
Clamp(x) == RMax(RInt(-1), RMin(One, x))

\* the number view.setInt16 receives for one sample, truncated by ToInt16
SampleInt(x) == Trunc(RMul(Clamp(x), RInt(Int16Scale)))

\* byte offset of the slot of frame i, channel c
SlotOffset(buffer, i, c) == 44 + (i * buffer.numberOfChannels + c) * 2

\* view.setInt16(o, v, true): the two low bytes of v, little-endian
SetInt16(bytes, o, v) ==
    [bytes EXCEPT ![o + 1] = ByteOf(v, 0), ![o + 2] = ByteOf(v, 1)]

\* the k-th setInt16 call of the two loops (channel outer, frame inner)
WriteChannel(buffer, k) == (k - 1) \div buffer.length
WriteFrame(buffer, k) == (k - 1) % buffer.length

\* the two loops from their k-th iteration on
RECURSIVE WriteSamples(_, _, _)
WriteSamples(bytes, buffer, k) ==
    IF k > buffer.numberOfChannels * buffer.length THEN bytes
    ELSE LET c == WriteChannel(buffer, k)
             i == WriteFrame(buffer, k)
         IN  WriteSamples(SetInt16(bytes, SlotOffset(buffer, i, c),
                                   SampleInt(buffer.data[c + 1][i + 1])),
                          buffer, k + 1)

\* the ArrayBuffer returned by exportToBuffer, as a sequence of bytes
\* (index o + 1 holds byte offset o); new ArrayBuffer is zero-filled
ExportBytes(buffer) ==
    WriteSamples([p \in 1..(44 + ExportDataLength(buffer)) |->
                     IF p <= 44 THEN HeaderByte(buffer, p - 1) ELSE 0],
                 buffer, 1)

\* number of setInt16 calls that touched each byte of the output
RECURSIVE CountWrites(_, _, _)
CountWrites(counts, buffer, k) ==
    IF k > buffer.numberOfChannels * buffer.length THEN counts
    ELSE LET o == SlotOffset(buffer, WriteFrame(buffer, k), WriteChannel(buffer, k))
         IN  CountWrites([counts EXCEPT ![o + 1] = @ + 1, ![o + 2] = @ + 1],
                         buffer, k + 1)

ExportWriteCounts(buffer) ==
    CountWrites([p \in 1..(44 + ExportDataLength(buffer)) |-> 0], buffer, 1)

\* readers of the byte layout (a reference PCM reader)
ReadU16(bytes, o) == bytes[o + 1] + 256 * bytes[o + 2]
ReadU32(bytes, o) == bytes[o + 1] + 256 * bytes[o + 2] + 65536 * bytes[o + 3]
                     + 16777216 * bytes[o + 4]
ReadI16(bytes, o) == LET u == ReadU16(bytes, o)
                     IN  IF u >= 32768 THEN u - 65536 ELSE u

----------------------------------------------------------------------------
(* Mixing engine: mixAudioSegments and normalizeBuffer *)

DefaultCrossfadeDuration == <<1, 2>>   \* defaultCrossfadeDuration = 0.5
CrossfadeRatio == <<1, 5>>             \* segment.duration * 0.2
MixerFadeIn == <<1, 10>>               \* segment.fadeIn || 0.1
TargetLevel == <<9, 10>>               \* normalizeBuffer targetLevel = 0.9

\* comparator (a, b) => a.startTime - b.startTime of a stable sort:
\* element j is placed before element k
SortsBefore(s, j, k) ==
    \/ RLt(s[j].startTime, s[k].startTime)
    \/ (s[j].startTime = s[k].startTime /\ j < k)

\* segments.sort((a, b) => a.startTime - b.startTime), Array.prototype.sort
\* being stable
NoSort(s) == s
SortSegmentsTiesReversed(s) ==
    [r \in 1..Len(s) |->
        s[CHOOSE k \in 1..Len(s) :
            Cardinality({j \in 1..Len(s) :
                \/ RLt(s[j].startTime, s[k].startTime)
                \/ (s[j].startTime = s[k].startTime /\ j > k)}) = r - 1]]
SortSegments(s) ==
    [r \in 1..Len(s) |->
        s[CHOOSE k \in 1..Len(s) :
            Cardinality({j \in 1..Len(s) : SortsBefore(s, j, k)}) = r - 1]]

\* segments.reduce((max, segment) => Math.max(max, startTime + duration), 0)
RECURSIVE ReduceMax(_, _, _)
ReduceMax(s, k, max) ==
    IF k > Len(s) THEN max
    ELSE ReduceMax(s, k + 1, RMax(max, RAdd(s[k].startTime, s[k].duration)))

TotalDuration(s) == ReduceMax(s, 1, Zero)
TotalSamplesRoundedDown(s) == Floor(RMul(TotalDuration(s), RInt(SampleRate)))
TotalSamples(s) == Ceil(RMul(TotalDuration(s), RInt(SampleRate)))

\* audioContext.createBuffer(2, totalSamples, sampleRate): zero-filled
CreateBuffer(n) == <<[t \in 1..n |-> Zero], [t \in 1..n |-> Zero]>>

\* crossfadeOut of segment number i (0-based) of the sorted list
CrossfadeOut(s, i) ==
    IF i < Len(s) - 1
    THEN RMin(DefaultCrossfadeDuration, RMul(s[i + 1].duration, CrossfadeRatio))
    ELSE Zero

EffectiveFadeIn(seg) == OrElse(seg.fadeIn, MixerFadeIn)
EffectiveFadeOut(s, i) == OrElse(s[i + 1].fadeOut, CrossfadeOut(s, i))

\* let gain = segment.volume || 1.0
BaseGain(seg) == OrElse(seg.volume, One)

\* the gain applied to sample s of a decoded buffer of n samples
GainWithoutFadeIn(seg, fadeIn, fadeOut, n, s) ==
    LET outLen == RMul(fadeOut, RInt(SampleRate))
    IN  IF RLt(RSub(RInt(n), outLen), RInt(s))
        THEN RMul(BaseGain(seg), RDiv(RInt(n - s), outLen))
        ELSE BaseGain(seg)
Gain(seg, fadeIn, fadeOut, n, s) ==
    LET g0 == BaseGain(seg)
        inLen == RMul(fadeIn, RInt(SampleRate))
        outLen == RMul(fadeOut, RInt(SampleRate))
        g1 == IF RLt(RInt(s), inLen) THEN RMul(g0, RDiv(RInt(s), inLen)) ELSE g0
    IN  IF RLt(RSub(RInt(n), outLen), RInt(s))
        THEN RMul(g1, RDiv(RInt(n - s), outLen))
        ELSE g1

StartSample(seg) == Floor(RMul(seg.startTime, RInt(SampleRate)))

\* body of the segment loop after the fetch: add segment i (0-based) of the
\* sorted list s, decoded as `buffer`, into the two channels of mix
MixSegmentOverwriting(mix, s, i, buffer) ==
    LET seg == s[i + 1]
        n == buffer.length
    IN  [channel \in 1..2 |->
            LET src == buffer.data[IF channel <= buffer.numberOfChannels
                                   THEN channel ELSE buffer.numberOfChannels]
            IN  [t \in 1..Len(mix[channel]) |->
                    LET sIdx == (t - 1) - StartSample(seg) IN
                    IF sIdx >= 0 /\ sIdx < n
                    THEN RMul(src[sIdx + 1],
                              Gain(seg, EffectiveFadeIn(seg), EffectiveFadeOut(s, i),
                                   n, sIdx))
                    ELSE mix[channel][t]]]
MixSegment(mix, s, i, buffer) ==
    LET seg == s[i + 1]
        fadeIn == EffectiveFadeIn(seg)
        fadeOut == EffectiveFadeOut(s, i)
        startSample == StartSample(seg)
        n == buffer.length
    IN  [channel \in 1..2 |->
            LET src == buffer.data[IF channel <= buffer.numberOfChannels
                                   THEN channel ELSE buffer.numberOfChannels]
            IN  [t \in 1..Len(mix[channel]) |->
                    LET sIdx == (t - 1) - startSample IN
                    IF sIdx >= 0 /\ sIdx < n
                    THEN RAdd(mix[channel][t],
                              RMul(src[sIdx + 1], Gain(seg, fadeIn, fadeOut, n, sIdx)))
                    ELSE mix[channel][t]]]

\* what the loop body computed for segment i (0-based) of the sorted list s:
\* its locals and, for every sample index the inner loop reached before its
\* break, the gain it multiplied with (the same in both channel passes)
LoopLog(s, i, buffer, total) ==
    LET seg == s[i + 1]
        fadeIn == EffectiveFadeIn(seg)
        fadeOut == EffectiveFadeOut(s, i)
        startSample == StartSample(seg)
        n == buffer.length
        reached == IF startSample >= total THEN 0
                   ELSE IF n < total - startSample THEN n ELSE total - startSample
    IN  [fadeIn |-> fadeIn, fadeOut |-> fadeOut, baseGain |-> BaseGain(seg),
         startSample |-> startSample, segmentSamples |-> n,
         gains |-> [k \in 1..reached |-> Gain(seg, fadeIn, fadeOut, n, k - 1)]]

\* peak absolute value over all channels
RECURSIVE PeakOf(_, _, _)
PeakOf(chan, k, max) ==
    IF k > Len(chan) THEN max
    ELSE PeakOf(chan, k + 1, IF RLt(max, RAbs(chan[k])) THEN RAbs(chan[k]) ELSE max)

MaxValue(mix) == PeakOf(mix[2], 1, PeakOf(mix[1], 1, Zero))

NoNormalize(mix) == mix
NormalizeEachChannel(mix) ==
    [channel \in 1..2 |->
        LET maxValue == PeakOf(mix[channel], 1, Zero) IN
        IF RLe(maxValue, TargetLevel) THEN mix[channel]
        ELSE [t \in 1..Len(mix[channel]) |->
                RMul(mix[channel][t], RDiv(TargetLevel, maxValue))]]
NormalizeBuffer(mix) ==
    LET maxValue == MaxValue(mix) IN
    IF RLe(maxValue, TargetLevel) THEN mix
    ELSE LET gainFactor == RDiv(TargetLevel, maxValue)
         IN  [channel \in 1..2 |->
                [t \in 1..Len(mix[channel]) |-> RMul(mix[channel][t], gainFactor)]]

\* the AudioBuffer object around the channel data of the mix
AsAudioBuffer(mix) ==
    [sampleRate |-> SampleRate, numberOfChannels |-> 2,
     length |-> Len(mix[1]), data |-> mix]

----------------------------------------------------------------------------
(* Inputs of the mixer *)

Opt(n, d) == <<Rat(n, d)>>
None == <<>>

Seg(st, du, url, vol, fi, fo) ==
    [startTime |-> st, duration |-> du, audioUrl |-> url,
     volume |-> vol, fadeIn |-> fi, fadeOut |-> fo]

\* start times include a negative one, which calculateSegmentTiming assigns
\* after a segment shorter than the crossfade
SegmentPool ==
    { Seg(Zero, One, "a", None, None, None),
      Seg(Zero, Rat(1, 2), "b", None, Opt(3, 20), None),
      Seg(Rat(1, 2), One, "a", Opt(2, 1), Opt(1, 5), Opt(3, 10)),
      Seg(Rat(1, 2), Rat(1, 2), "c", None, None, Opt(3, 10)),
      Seg(Rat(1, 4), Rat(1, 2), "b", Opt(0, 1), None, Opt(0, 1)),
      Seg(Rat(-3, 20), Rat(7, 10), "d", Opt(1, 2), Opt(0, 1), None) }

\* the lists of at most n elements of S
SeqsUpTo(S, n) == UNION {[1..k -> S] : k \in 0..n}

Decoded(ch, data) ==
    [ok |-> TRUE, numberOfChannels |-> ch, length |-> Len(data[1]), data |-> data]
Undecodable == [ok |-> FALSE, error |-> "EncodingError"]

BufA == Decoded(2, << <<One, One, Rat(-1, 1), Rat(1, 2), One, One>>,
                      <<Zero, Rat(-1, 2), One, One, Rat(-1, 1), One>> >>)
BufB == Decoded(1, << <<One, Rat(1, 2), One, Rat(-1, 1), One, One, One, One,
                        Rat(1, 2), One, One, One>> >>)
BufD == Decoded(1, << <<Rat(1, 2), Rat(-1, 4), One>> >>)

\* what the network and decodeAudioData answer for each audioUrl
Worlds ==
    { [u \in {"a", "b", "c", "d"} |->
          CASE u = "a" -> BufA [] u = "b" -> BufB [] u = "d" -> BufD
            [] u = "c" -> c] : c \in {Undecodable, BufD} }

----------------------------------------------------------------------------
(* The mixAudioSegments operation *)

NoResult == <<>>

MixIdleRest ==
    /\ idx = 0 /\ totalDuration = Zero /\ totalSamples = 0
    /\ mixBuffer = <<>> /\ preNorm = <<>> /\ applied = <<>> /\ finalBuffer = <<>>
    /\ fetchCount = 0 /\ urlCount = 0 /\ result = NoResult /\ error = ""

MixInit ==
    /\ pc = "idle"
    /\ segments \in SeqsUpTo(SegmentPool, MaxSegs)
    /\ input = segments
    /\ world \in Worlds
    /\ MixIdleRest

MixOff ==
    /\ pc = "off" /\ segments = <<>> /\ input = <<>>
    /\ world = [u \in {} |-> Undecodable]
    /\ MixIdleRest

\* the result object of the one-segment path
SingleResultSpan(segment) ==
    [audioUrl |-> segment.audioUrl,
     duration |-> RAdd(segment.startTime, segment.duration),
     segments |-> <<segment>>]
SingleResult(segment) ==
    [audioUrl |-> segment.audioUrl,
     duration |-> segment.duration,
     segments |-> <<segment>>]

\* lines 146-158: the call with an empty list throws (audioContext is not
\* null once the constructor has returned, so line 148 is not reached)
MixEmptyZeroLength ==
    /\ pc = "idle"
    /\ Len(segments) = 0
    /\ pc' = "done"
    /\ result' = [audioUrl |-> "", duration |-> Zero, segments |-> <<>>]
    /\ UNCHANGED <<segments, input, world, idx, totalDuration, totalSamples,
                   mixBuffer, preNorm, applied, finalBuffer, fetchCount, urlCount,
                   error>>
MixEmpty ==
    /\ pc = "idle"
    /\ Len(segments) = 0
    /\ pc' = "failed"
    /\ error' = "Aucun segment audio a mixer"
    /\ UNCHANGED <<segments, input, world, idx, totalDuration, totalSamples,
                   mixBuffer, preNorm, applied, finalBuffer, fetchCount, urlCount,
                   result>>

\* lines 160-172: one segment is returned as it is
MixSingle ==
    /\ pc = "idle"
    /\ Len(segments) = 1
    /\ pc' = "done"
    /\ result' = SingleResult(segments[1])
    /\ UNCHANGED <<segments, input, world, idx, totalDuration, totalSamples,
                   mixBuffer, preNorm, applied, finalBuffer, fetchCount, urlCount,
                   error>>

\* lines 174-202: sort in place, allocate, issue the first fetch
MixStart ==
    /\ pc = "idle"
    /\ Len(segments) >= 2
    /\ segments' = SortSegments(segments)
    /\ totalDuration' = TotalDuration(segments')
    /\ totalSamples' = TotalSamples(segments')
    /\ mixBuffer' = CreateBuffer(totalSamples')
    /\ idx' = 0
    /\ fetchCount' = fetchCount + 1
    /\ pc' = "fetching"
    /\ UNCHANGED <<input, world, preNorm, applied, finalBuffer, urlCount, result,
                   error>>

\* lines 202-250: the awaited fetch of segment idx succeeded
FetchOk ==
    /\ pc = "fetching"
    /\ world[segments[idx + 1].audioUrl].ok
    /\ LET mixed == MixSegment(mixBuffer, segments, idx,
                               world[segments[idx + 1].audioUrl])
       IN  IF idx + 1 < Len(segments)
           THEN /\ mixBuffer' = mixed
                /\ fetchCount' = fetchCount + 1
                /\ UNCHANGED <<pc, preNorm, finalBuffer>>
           ELSE /\ preNorm' = mixed
                /\ mixBuffer' = NormalizeBuffer(mixed)
                /\ finalBuffer' = ExportBytes(AsAudioBuffer(mixBuffer'))
                /\ pc' = "exporting"
                /\ UNCHANGED fetchCount
    /\ applied' = Append(applied, LoopLog(segments, idx,
                                          world[segments[idx + 1].audioUrl],
                                          totalSamples))
    /\ idx' = idx + 1
    /\ UNCHANGED <<segments, input, world, totalDuration, totalSamples,
                   urlCount, result, error>>

\* lines 81-90, 263-266: the awaited fetch of segment idx threw
FetchFailSkipsSegment ==
    /\ pc = "fetching"
    /\ ~world[segments[idx + 1].audioUrl].ok
    /\ IF idx + 1 < Len(segments)
       THEN /\ fetchCount' = fetchCount + 1
            /\ UNCHANGED <<pc, mixBuffer, preNorm, finalBuffer>>
       ELSE /\ preNorm' = mixBuffer
            /\ mixBuffer' = NormalizeBuffer(mixBuffer)
            /\ finalBuffer' = ExportBytes(AsAudioBuffer(mixBuffer'))
            /\ pc' = "exporting"
            /\ UNCHANGED fetchCount
    /\ idx' = idx + 1
    /\ UNCHANGED <<segments, input, world, totalDuration, totalSamples,
                   applied, urlCount, result, error>>
FetchFail ==
    /\ pc = "fetching"
    /\ ~world[segments[idx + 1].audioUrl].ok
    /\ pc' = "failed"
    /\ error' = world[segments[idx + 1].audioUrl].error
    /\ UNCHANGED <<segments, input, world, idx, totalDuration, totalSamples,
                   mixBuffer, preNorm, applied, finalBuffer, fetchCount, urlCount,
                   result>>

\* lines 250-262: after the awaited export, the blob URL and the result
MixReturn ==
    /\ pc = "exporting"
    /\ urlCount' = urlCount + 1
    /\ result' = [audioUrl |-> "blob:mix", duration |-> totalDuration,
                  segments |-> segments]
    /\ pc' = "done"
    /\ UNCHANGED <<segments, input, world, idx, totalDuration, totalSamples,
                   mixBuffer, preNorm, applied, finalBuffer, fetchCount, error>>

MixNext == MixEmpty \/ MixSingle \/ MixStart \/ FetchOk \/ FetchFail \/ MixReturn

----------------------------------------------------------------------------
(* exportToBuffer applied to an arbitrary AudioBuffer *)

ExportRates == {8000, 44100}
ExportSamples == {Rat(-2, 1), Rat(-1, 3), Zero, One, Rat(3, 2)}

\* the mono and stereo buffers of at most n frames
ExportBuffers(n) ==
    UNION { { [sampleRate |-> r, numberOfChannels |-> c, length |-> l, data |-> d] :
                r \in ExportRates, d \in [1..c -> [1..l -> ExportSamples]] } :
            c \in 1..2, l \in 1..n }

ExportOff == ePc = "off" /\ eBuffer = <<>> /\ eBytes = <<>> /\ eWrites = <<>>

ExportInit ==
    /\ ePc = "idle"
    /\ eBuffer \in ExportBuffers(MaxFrames)
    /\ eBytes = <<>>
    /\ eWrites = <<>>

\* lines 269-307
ExportToBuffer ==
    /\ ePc = "idle"
    /\ eBytes' = ExportBytes(eBuffer)
    /\ eWrites' = ExportWriteCounts(eBuffer)
    /\ ePc' = "done"
    /\ UNCHANGED eBuffer

----------------------------------------------------------------------------
(* Timeline scheduler: calculateSegmentTiming *)

SchedFadeIn == <<3, 20>>      \* options.defaultFadeIn || 0.15
SchedFadeOut == <<1, 5>>      \* options.defaultFadeOut || 0.2
SchedCrossfade == <<3, 10>>   \* options.defaultCrossfade || 0.3
PauseLength == <<3, 10>>      \* pauseCount * 0.3

\* the characters matched by /[.!?...]/g (the last one is U+2026)
PauseChars == {".", "!", "?", "ellipsis"}

\* characters per second of a speechRate value
CharsPerSecondDefaultModerate(speechRate) ==
    IF speechRate = "tres lent" THEN 10
    ELSE IF speechRate = "lent" THEN 12
    ELSE IF speechRate = "rapide" THEN 18
    ELSE 15
CharsPerSecond(speechRate) ==
    IF speechRate = "tres lent" THEN 10
    ELSE IF speechRate = "lent" THEN 12
    ELSE IF speechRate = "modere" THEN 15
    ELSE IF speechRate = "rapide" THEN 18
    ELSE 13

PauseCount(text) == Cardinality({k \in 1..Len(text) : text[k] \in PauseChars})

\* totalDuration of one segment
EstimatedTotal(segment) ==
    RAdd(Rat(Len(segment.segment), CharsPerSecond(segment.speechRate)),
         RMul(RInt(PauseCount(segment.segment)), PauseLength))

\* currentTime += totalDuration - defaultCrossfade
AdvanceNoOverlap(currentTime, total, crossfade) == RAdd(currentTime, total)
Advance(currentTime, total, crossfade) ==
    RAdd(currentTime, RSub(total, crossfade))

\* currentTime when the map callback runs on element k (1-based)
RECURSIVE CurrentTimeAt(_, _, _)
CurrentTimeAt(segs, k, crossfade) ==
    IF k = 1 THEN Zero
    ELSE Advance(CurrentTimeAt(segs, k - 1, crossfade),
                 EstimatedTotal(segs[k - 1]), crossfade)

\* calculateEmotionTransitionDuration (voiceSettings.ts), in milliseconds
TransitionMap ==
    [sensuel |-> [excite |-> 600, jouissance |-> 800, murmure |-> 400,
                  intense |-> 700, doux |-> 300],
     excite |-> [sensuel |-> 600, jouissance |-> 400, murmure |-> 700,
                 intense |-> 500, doux |-> 800],
     jouissance |-> [sensuel |-> 800, excite |-> 400, murmure |-> 900,
                     intense |-> 300, doux |-> 1000],
     murmure |-> [sensuel |-> 400, excite |-> 700, jouissance |-> 900,
                  intense |-> 800, doux |-> 300],
     intense |-> [sensuel |-> 700, excite |-> 500, jouissance |-> 300,
                  murmure |-> 800, doux |-> 900],
     doux |-> [sensuel |-> 300, excite |-> 800, jouissance |-> 1000,
               murmure |-> 300, intense |-> 900]]

\* transitionMap[currentEmotion]?.[nextEmotion] || 500, for emotion names
TransitionDuration(currentEmotion, nextEmotion) ==
    IF currentEmotion \in DOMAIN TransitionMap
           /\ nextEmotion \in DOMAIN TransitionMap[currentEmotion]
    THEN TransitionMap[currentEmotion][nextEmotion]
    ELSE 500

\* variant whose fade-out towards the next segment lasts the emotion transition
CalculateSegmentTimingEmotionFades(segs, options) ==
    LET defaultFadeIn == OrElse(options.defaultFadeIn, SchedFadeIn)
        defaultFadeOut == OrElse(options.defaultFadeOut, SchedFadeOut)
        defaultCrossfade == OrElse(options.defaultCrossfade, SchedCrossfade)
    IN  [k \in 1..Len(segs) |->
            [segment |-> segs[k].segment,
             speechRate |-> segs[k].speechRate,
             emotionalTone |-> segs[k].emotionalTone,
             environment |-> segs[k].environment,
             volume |-> segs[k].volume,
             startTime |-> CurrentTimeAt(segs, k, defaultCrossfade),
             duration |-> EstimatedTotal(segs[k]),
             fadeIn |-> OrElse(segs[k].fadeIn, defaultFadeIn),
             fadeOut |-> IF k < Len(segs)
                         THEN Rat(TransitionDuration(segs[k].emotionalTone,
                                                     segs[k + 1].emotionalTone), 1000)
                         ELSE OrElse(segs[k].fadeOut, defaultFadeOut)]]

\* lines 62-103; ...segment copies the fields the function does not set
CalculateSegmentTiming(segs, options) ==
    LET defaultFadeIn == OrElse(options.defaultFadeIn, SchedFadeIn)
        defaultFadeOut == OrElse(options.defaultFadeOut, SchedFadeOut)
        defaultCrossfade == OrElse(options.defaultCrossfade, SchedCrossfade)
    IN  [k \in 1..Len(segs) |->
            [segment |-> segs[k].segment,
             speechRate |-> segs[k].speechRate,
             emotionalTone |-> segs[k].emotionalTone,
             environment |-> segs[k].environment,
             volume |-> segs[k].volume,
             startTime |-> CurrentTimeAt(segs, k, defaultCrossfade),
             duration |-> EstimatedTotal(segs[k]),
             fadeIn |-> OrElse(segs[k].fadeIn, defaultFadeIn),
             fadeOut |-> OrElse(segs[k].fadeOut, defaultFadeOut)]]

(* Inputs of the scheduler *)

Tagged(text, rate, fi, fo) ==
    [segment |-> text, speechRate |-> rate, fadeIn |-> fi, fadeOut |-> fo,
     emotionalTone |-> "sensuel", environment |-> "chambre", volume |-> None]

\* emotional tone, environment and volume of a detected segment
ToneChoices ==
    { <<"sensuel", "chambre", None>>, <<"excite", "plage", Opt(1, 2)>> }

WithTone(seg, tone) ==
    [seg EXCEPT !.emotionalTone = tone[1], !.environment = tone[2], !.volume = tone[3]]

\* the first segment of every list also takes every other tone
Toned(lists) ==
    lists \cup { [s EXCEPT ![1] = WithTone(s[1], tone)] :
                    s \in {l \in lists : Len(l) >= 2}, tone \in ToneChoices }

\* segment texts are not empty: "a"^n, optionally closed by a full stop
RECURSIVE Letters(_)
Letters(n) == IF n = 0 THEN <<>> ELSE Append(Letters(n - 1), "a")

PlainTexts(m) ==
    {Letters(n) : n \in 1..m} \cup {Append(Letters(n), ".") : n \in 1..(m - 1)}

AllTexts(m) ==
    (SeqsUpTo({"a", ".", ","}, m) \ {<<>>}) \cup {<<"ellipsis">>, <<"a", "!", "?">>}

SpeechRates == {"tres lent", "lent", "modere", "rapide", "normal", "undefined"}
FadeChoices == {None, Opt(0, 1), Opt(1, 2)}

\* lists of plain segments, and one-element lists of every kind of segment
TimingInputs(n, m) ==
    Toned(SeqsUpTo({Tagged(t, "undefined", None, None) : t \in PlainTexts(m)}, n))
        \cup {<<Tagged(t, r, fi, fo)>> :
                t \in AllTexts(m), r \in SpeechRates, fi \in FadeChoices, fo \in FadeChoices}

TimingOptions ==
    { [defaultFadeIn |-> None, defaultFadeOut |-> None, defaultCrossfade |-> None],
      [defaultFadeIn |-> None, defaultFadeOut |-> Opt(0, 1), defaultCrossfade |-> Opt(0, 1)],
      [defaultFadeIn |-> Opt(1, 4), defaultFadeOut |-> Opt(1, 4), defaultCrossfade |-> Opt(1, 2)] }

TimingOff == tPc = "off" /\ tInput = <<>> /\ tOptions = <<>> /\ tOutput = <<>>

TimingInit ==
    /\ tPc = "idle"
    /\ tInput \in TimingInputs(MaxTimingSegs, MaxTextLen)
    /\ tOptions \in TimingOptions
    /\ tOutput = <<>>

\* lines 62-103
TimingCall ==
    /\ tPc = "idle"
    /\ tOutput' = CalculateSegmentTiming(tInput, tOptions)
    /\ tPc' = "done"
    /\ UNCHANGED <<tInput, tOptions>>

----------------------------------------------------------------------------
(* Voice parameter mapper: getVoiceSettings *)

\* the value of a failed numeric conversion; every arithmetic operation and
\* Math.min / Math.max yield it when an operand is it
NaN == <<0, 0>>

JsMul(x, y) == IF x = NaN \/ y = NaN THEN NaN ELSE RMul(x, y)
JsAdd(x, y) == IF x = NaN \/ y = NaN THEN NaN ELSE RAdd(x, y)
JsSub(x, y) == IF x = NaN \/ y = NaN THEN NaN ELSE RSub(x, y)
JsMin(x, y) == IF x = NaN \/ y = NaN THEN NaN ELSE RMin(x, y)
JsMax(x, y) == IF x = NaN \/ y = NaN THEN NaN ELSE RMax(x, y)

\* the own properties of the object literal baseSettings
BaseSettings ==
    [sensuel |-> [stability |-> Rat(7, 10), similarity_boost |-> Rat(9, 10)],
     excite |-> [stability |-> Rat(4, 10), similarity_boost |-> Rat(95, 100)],
     jouissance |-> [stability |-> Rat(3, 10), similarity_boost |-> One],
     murmure |-> [stability |-> Rat(85, 100), similarity_boost |-> Rat(8, 10)],
     intense |-> [stability |-> Rat(4, 10), similarity_boost |-> Rat(95, 100)],
     doux |-> [stability |-> Rat(75, 100), similarity_boost |-> Rat(85, 100)]]

\* the property names an object literal inherits from Object.prototype; each
\* of them names a function or an object, none of which has a stability or a
\* similarity_boost property
ObjectPrototypeKeys ==
    {"constructor", "toString", "toLocaleString", "valueOf", "hasOwnProperty",
     "isPrototypeOf", "propertyIsEnumerable", "__proto__"}

\* baseSettings[emotion]: what the property read yields, with the numbers its
\* two fields convert to
BaseSettingsEntry(emotion) ==
    IF emotion \in DOMAIN BaseSettings
    THEN [truthy |-> TRUE, stability |-> BaseSettings[emotion].stability,
          similarity_boost |-> BaseSettings[emotion].similarity_boost]
    ELSE [truthy |-> emotion \in ObjectPrototypeKeys,
          stability |-> NaN, similarity_boost |-> NaN]

\* baseSettings[emotion] || baseSettings.sensuel
SettingsFor(emotion) ==
    IF BaseSettingsEntry(emotion).truthy THEN BaseSettingsEntry(emotion)
    ELSE BaseSettingsEntry("sensuel")

GetVoiceSettings(emotion, analysis) ==
    LET settings == SettingsFor(emotion) IN
    [stability |->
        JsMax(Rat(3, 10),
              JsMin(Rat(9, 10),
                    JsMul(settings.stability,
                          JsSub(One, JsMul(analysis.intensity, Rat(3, 10)))))),
     similarity_boost |->
        JsMax(Rat(6, 10),
              JsMin(One,
                    JsAdd(settings.similarity_boost,
                          JsMul(analysis.emotionalProgression, Rat(15, 100)))))]

(* Inputs of the mapper *)

Emotions ==
    DOMAIN BaseSettings \cup {"neutre", "", "sensual", "constructor", "toString"}
Intensities == {Rat(-1, 1), Zero, Rat(1, 2), One, Rat(3, 1)}
Progressions == {Rat(-2, 1), Zero, Rat(1, 2), One, Rat(6, 5)}

VoiceOff == vPc = "off" /\ vEmotion = "" /\ vAnalysis = <<>> /\ vSettings = <<>>

VoiceInit ==
    /\ vPc = "idle"
    /\ vEmotion \in Emotions
    /\ vAnalysis \in [intensity : Intensities, emotionalProgression : Progressions]
    /\ vSettings = <<>>

\* lines 29-73
VoiceCall ==
    /\ vPc = "idle"
    /\ vSettings' = GetVoiceSettings(vEmotion, vAnalysis)
    /\ vPc' = "done"
    /\ UNCHANGED <<vEmotion, vAnalysis>>

----------------------------------------------------------------------------
(* Markup generator: addBreathingAndPauses *)

(* A string is a sequence of tokens: a punctuation or markup character      *)
(* sequence ("p"), a run of letters ("w"), a run of digits ("d", value n)   *)
(* or the digits after a decimal point ("f", value n/d).  Letters and       *)
(* digits are the characters of \w; adjacent "w"/"d"/"f" tokens form one    *)
(* word for \b.                                                             *)
Tok(k, s, n, d) == [k |-> k, s |-> s, n |-> n, d |-> d]
Punct(s) == Tok("p", s, 0, 1)
Word(s) == Tok("w", s, 0, 1)
Digits(n) == Tok("d", "", n, 1)
Fraction(x) == Tok("f", "", x[1], x[2])

Space == Punct(" ")
Dot == Punct(".")
Bang == Punct("!")
Quest == Punct("?")
Comma == Punct(",")

IsWordChar(tok) == tok.k \in {"w", "d", "f"}

\* `${x}` of a non-negative number: a whole number prints its digits, any
\* other number prints digits, a decimal point and digits
NumberToString(x) ==
    IF x[2] = 1 THEN <<Digits(x[1])>>
    ELSE <<Digits(Floor(x)), Dot, Fraction(RSub(x, RInt(Floor(x))))>>

\* `<break time="${x}ms"/>`
BreakTag(x) ==
    <<Punct("<"), Word("break"), Space, Word("time"), Punct("=\"")>>
        \o NumberToString(x) \o <<Word("ms"), Punct("\"/>")>>

\* text.replace(/\s+/g, ' ')
RECURSIVE CollapseSpaces(_, _)
CollapseSpaces(text, k) ==
    IF k > Len(text) THEN <<>>
    ELSE IF text[k] = Space /\ k > 1 /\ text[k - 1] = Space
         THEN CollapseSpaces(text, k + 1)
         ELSE <<text[k]>> \o CollapseSpaces(text, k + 1)

\* .trim() of a text without doubled spaces
Trim(text) ==
    LET a == IF Len(text) > 0 /\ text[1] = Space THEN Tail(text) ELSE text
    IN  IF Len(a) > 0 /\ a[Len(a)] = Space THEN SubSeq(a, 1, Len(a) - 1) ELSE a

CleanText(text) == Trim(CollapseSpaces(text, 1))

\* variant without the cap of 1500
PauseDurationUncapped(intensity) == RAdd(RInt(1000), RMul(intensity, RInt(700)))

\* Math.min(1500, 1000 + (analysis.intensity * 700))
PauseDuration(intensity) ==
    RMin(RInt(1500), RAdd(RInt(1000), RMul(intensity, RInt(700))))

\* text.replace(/\.\.\./g, `<break time="${pauseDuration * 1.2}ms"/>`)
RECURSIVE ReplaceEllipses(_, _, _)
ReplaceEllipses(text, k, pauseDuration) ==
    IF k > Len(text) THEN <<>>
    ELSE IF k + 2 <= Len(text) /\ text[k] = Dot /\ text[k + 1] = Dot /\ text[k + 2] = Dot
         THEN BreakTag(RMul(pauseDuration, Rat(12, 10)))
                  \o ReplaceEllipses(text, k + 3, pauseDuration)
         ELSE <<text[k]>> \o ReplaceEllipses(text, k + 1, pauseDuration)

\* the duration chosen by the callback of line 41
SentencePause(match, pauseDuration) ==
    IF match = Quest THEN RMul(pauseDuration, Rat(11, 10))
    ELSE IF match = Bang THEN RMul(pauseDuration, Rat(15, 10))
    ELSE pauseDuration

(* A global replace of a one-character pattern rewrites every character of *)
(* the string on its own, so the result for text[lo..hi] is the result for *)
(* the left half followed by the result for the right half.                *)

\* text.replace(/([.!?])/g, match => `${match}<break time="${duration}ms"/>`)
RECURSIVE MarkSentences(_, _, _, _)
MarkSentences(text, lo, hi, pauseDuration) ==
    IF lo > hi THEN <<>>
    ELSE IF lo = hi
         THEN IF text[lo] \in {Dot, Bang, Quest}
              THEN <<text[lo]>> \o BreakTag(SentencePause(text[lo], pauseDuration))
              ELSE <<text[lo]>>
         ELSE MarkSentences(text, lo, (lo + hi) \div 2, pauseDuration)
                  \o MarkSentences(text, (lo + hi) \div 2 + 1, hi, pauseDuration)

\* text.replace(/,/g, `,<break time="${pauseDuration * 0.7}ms"/>`)
RECURSIVE MarkCommas(_, _, _, _)
MarkCommas(text, lo, hi, pauseDuration) ==
    IF lo > hi THEN <<>>
    ELSE IF lo = hi
         THEN IF text[lo] = Comma
              THEN <<Comma>> \o BreakTag(RMul(pauseDuration, Rat(7, 10)))
              ELSE <<text[lo]>>
         ELSE MarkCommas(text, lo, (lo + hi) \div 2, pauseDuration)
                  \o MarkCommas(text, (lo + hi) \div 2 + 1, hi, pauseDuration)

\* contextualMoodPatterns (voiceSettings.ts): pitch as sign and percent
ContextualMoodPatterns ==
    [anticipation |-> [pitch |-> <<"+", 5>>, rate |-> 55],
     tension |-> [pitch |-> <<"+", 10>>, rate |-> 65],
     relaxation |-> [pitch |-> <<"-", 5>>, rate |-> 50],
     intimacy |-> [pitch |-> <<"-", 10>>, rate |-> 45],
     passion |-> [pitch |-> <<"+", 15>>, rate |-> 60]]

BaseRate == 70      \* const baseRate = "70%"

PitchAttr(pitch) ==
    <<Word("pitch"), Punct("=\""), Punct(pitch[1]), Digits(pitch[2]), Punct("%"),
      Punct("\"")>>
RateAttr(rate) ==
    <<Word("rate"), Punct("=\""), Digits(rate), Punct("%"), Punct("\"")>>
CloseProsody == <<Punct("</"), Word("prosody"), Punct(">")>>

\* lines 53-59
WrapProsody(text, contextualMood) ==
    IF contextualMood # "neutral"
    THEN <<Punct("<"), Word("prosody"), Space>>
             \o PitchAttr(ContextualMoodPatterns[contextualMood].pitch) \o <<Space>>
             \o RateAttr(BaseRate) \o <<Punct(">")>> \o text \o CloseProsody
    ELSE <<Punct("<"), Word("prosody"), Space>>
             \o RateAttr(BaseRate) \o <<Space>>
             \o PitchAttr(<<"-", 5>>) \o <<Punct(">")>> \o text \o CloseProsody

\* `<emphasis level="${emphasisLevel}">${word}</emphasis>`
EmphasisTag(word, level) ==
    <<Punct("<"), Word("emphasis"), Space, Word("level"), Punct("=\""), Word(level),
      Punct("\""), Punct(">"), Word(word), Punct("</"), Word("emphasis"), Punct(">")>>

\* text.replace(new RegExp(`\\b${word}\\b`, 'g'), ...) for a one-word `word`
RECURSIVE Emphasize(_, _, _, _, _)
Emphasize(text, lo, hi, word, level) ==
    IF lo > hi THEN <<>>
    ELSE IF lo = hi
         THEN IF /\ text[lo] = Word(word)
                 /\ (lo = 1 \/ ~IsWordChar(text[lo - 1]))
                 /\ (lo = Len(text) \/ ~IsWordChar(text[lo + 1]))
              THEN EmphasisTag(word, level)
              ELSE <<text[lo]>>
         ELSE Emphasize(text, lo, (lo + hi) \div 2, word, level)
                  \o Emphasize(text, (lo + hi) \div 2 + 1, hi, word, level)

\* analysis.emphasis.forEach(...), from word number j on
RECURSIVE EmphasizeAll(_, _, _, _)
EmphasizeAll(text, words, j, level) ==
    IF j > Len(words) THEN text
    ELSE LET replaced == Emphasize(text, 1, Len(text), words[j], level)
         IN  EmphasizeAll(replaced, words, j + 1, level)

EmphasisLevel(intensity) ==
    IF RLt(Rat(7, 10), intensity) THEN "strong" ELSE "moderate"

\* the value of `text` after lines 34, 40, 41-46, 47, 53-59 and 62-66
AddBreathingAndPauses(text, analysis) ==
    LET pauseDuration == PauseDuration(analysis.intensity)
        clean == CleanText(text)
        ellipses == ReplaceEllipses(clean, 1, pauseDuration)
        sentences == MarkSentences(ellipses, 1, Len(ellipses), pauseDuration)
        commas == MarkCommas(sentences, 1, Len(sentences), pauseDuration)
        wrapped == WrapProsody(commas, analysis.contextualMood)
    IN  [clean |-> clean, ellipses |-> ellipses, sentences |-> sentences,
         commas |-> commas, wrapped |-> wrapped,
         returned |-> EmphasizeAll(wrapped, analysis.emphasis, 1,
                                   EmphasisLevel(analysis.intensity))]

(* Inputs of the markup generator *)

TextAlphabet == {Word("oui"), Space, Dot, Bang, Quest, Comma}

\* every text of at most n tokens, and some longer ones with an ellipsis
MarkupTexts(n) ==
    SeqsUpTo(TextAlphabet, n)
        \cup { <<Word("oui"), Dot, Dot, Dot>>,
               <<Word("oui"), Dot, Dot, Dot, Space, Word("oui"), Bang>>,
               <<Space, Word("oui"), Comma, Space, Space, Word("oui"), Quest, Space>>,
               <<Dot, Dot, Dot, Dot>>,
               <<Word("oui"), Comma, Word("oui"), Dot>> }

MarkupIntensities == {Zero, Rat(33, 100), Rat(1, 2), Rat(4, 5), One}
ContextualMoods == DOMAIN ContextualMoodPatterns \cup {"neutral"}
EmphasisLists == {<<>>, <<"oui">>, <<"time", "oui">>}

MarkupOff == sPc = "off" /\ sText = <<>> /\ sAnalysis = <<>> /\ sStages = <<>>

MarkupInit ==
    /\ sPc = "idle"
    /\ sText \in MarkupTexts(MaxMarkupLen)
    /\ sAnalysis \in [intensity : MarkupIntensities, contextualMood : ContextualMoods,
                      emphasis : EmphasisLists]
    /\ sStages = <<>>

\* lines 27-71
MarkupCall ==
    /\ sPc = "idle"
    /\ sStages' = AddBreathingAndPauses(sText, sAnalysis)
    /\ sPc' = "done"
    /\ UNCHANGED <<sText, sAnalysis>>

----------------------------------------------------------------------------
(* Player: VoicePlayer effects and AudioMixerService.stopAll/resume/suspend *)

(* The <audio> element is rendered only while audioUrl is truthy, so        *)
(* audioRef.current is non-null exactly then.  A step of the player is one  *)
(* commit of React (the cleanup of the previous effect, then the effect     *)
(* body), one event handler, or the settling of one promise of the audio    *)
(* context; the context changes state when the promise settles.             *)

AudioUrls == {"", "u1", "u2"}
Environments == {"default", "foret"}

HasElement(url) == url # ""

LogEntry(op, segs, envs) ==
    [op |-> op, nodes |-> Cardinality(segs) + Cardinality(envs)]

\* stopAll, lines 309-329: each node is stopped and disconnected inside its
\* own try/catch, then the map is cleared
StopAllNodes(nodes) == nodes \ nodes

\* resume(), lines 337-341
ResumeCalls(state, pending) ==
    IF state = "suspended" THEN Append(pending, "resume") ELSE pending

\* suspend(), lines 343-347
SuspendCalls(state, pending) ==
    IF state = "running" THEN Append(pending, "suspend") ELSE pending

PlayerOff ==
    /\ pStage = "off" /\ pAudioUrl = "" /\ pEnvironment = "" /\ pListeners = FALSE
    /\ elPlaying = FALSE /\ ctxState = "closed" /\ pendingCalls = <<>>
    /\ lastEvent = "none" /\ segmentNodes = {} /\ environmentNodes = {}
    /\ pLog = <<>> /\ pRenders = 0 /\ pEvents = 0

\* the singleton is constructed at module load (line 350); a context created
\* without a user gesture starts suspended, otherwise running
PlayerInit ==
    /\ pStage = "unmounted" /\ pAudioUrl = "" /\ pEnvironment = "default"
    /\ pListeners = FALSE /\ elPlaying = FALSE
    /\ ctxState \in {"suspended", "running"}
    /\ pendingCalls = <<>> /\ lastEvent = "none"
    /\ segmentNodes = {} /\ environmentNodes = {}
    /\ pLog = <<>> /\ pRenders = 0 /\ pEvents = 0

\* first render: the effect of lines 30-71, then the effect of lines 73-122
Mount(url, env) ==
    /\ pStage = "unmounted"
    /\ pStage' = "mounted"
    /\ pAudioUrl' = url /\ pEnvironment' = env
    /\ pLog' = IF HasElement(url)
               THEN Append(pLog, LogEntry("load", segmentNodes, environmentNodes))
               ELSE pLog
    /\ pendingCalls' = IF HasElement(url) THEN ResumeCalls(ctxState, pendingCalls)
                       ELSE pendingCalls
    /\ pListeners' = HasElement(url)
    /\ UNCHANGED <<elPlaying, ctxState, lastEvent, segmentNodes, environmentNodes,
                   pRenders, pEvents>>

\* variant whose effect returns no cleanup
PropsChangeWithoutCleanup(url, env) ==
    /\ pStage = "mounted" /\ pRenders < MaxRenders
    /\ <<url, env>> # <<pAudioUrl, pEnvironment>>
    /\ pAudioUrl' = url /\ pEnvironment' = env /\ pRenders' = pRenders + 1
    /\ pListeners' = (pListeners /\ HasElement(url))
    /\ elPlaying' = FALSE
    /\ pLog' = IF HasElement(url)
               THEN Append(pLog, LogEntry("load", segmentNodes, environmentNodes))
               ELSE pLog
    /\ pendingCalls' = IF HasElement(url) THEN ResumeCalls(ctxState, pendingCalls)
                       ELSE pendingCalls
    /\ UNCHANGED <<pStage, ctxState, lastEvent, segmentNodes, environmentNodes, pEvents>>

\* a render with a changed audioUrl or environment: the element is created,
\* kept or removed; the cleanup of the previous effect runs (lines 57-64 or
\* 67-70), then the effect body (lines 33-56).  The handlers of the effect
\* with no dependencies (lines 105-111) stay on the element they were put on.
PropsChange(url, env) ==
    /\ pStage = "mounted" /\ pRenders < MaxRenders
    /\ <<url, env>> # <<pAudioUrl, pEnvironment>>
    /\ pAudioUrl' = url /\ pEnvironment' = env /\ pRenders' = pRenders + 1
    /\ pListeners' = (pListeners /\ HasElement(url))
    /\ elPlaying' = FALSE
    /\ segmentNodes' = StopAllNodes(segmentNodes)
    /\ environmentNodes' = StopAllNodes(environmentNodes)
    /\ pLog' = IF HasElement(url)
               THEN pLog \o <<LogEntry("stopAll", segmentNodes', environmentNodes'),
                              LogEntry("load", segmentNodes', environmentNodes')>>
               ELSE Append(pLog, LogEntry("stopAll", segmentNodes', environmentNodes'))
    /\ pendingCalls' = IF HasElement(url) THEN ResumeCalls(ctxState, pendingCalls)
                       ELSE pendingCalls
    /\ UNCHANGED <<pStage, ctxState, lastEvent, pEvents>>

\* unmount: the cleanups of both effects
Unmount ==
    /\ pStage = "mounted"
    /\ pStage' = "gone"
    /\ pListeners' = FALSE /\ elPlaying' = FALSE
    /\ segmentNodes' = StopAllNodes(segmentNodes)
    /\ environmentNodes' = StopAllNodes(environmentNodes)
    /\ pLog' = Append(pLog, LogEntry("stopAll", segmentNodes', environmentNodes'))
    /\ UNCHANGED <<pAudioUrl, pEnvironment, ctxState, pendingCalls, lastEvent,
                   pRenders, pEvents>>

\* the element fires 'play'; handleAudioPlay (lines 75-79) runs if attached
Play ==
    /\ pStage = "mounted" /\ HasElement(pAudioUrl) /\ ~elPlaying
    /\ pEvents < MaxEvents
    /\ elPlaying' = TRUE /\ lastEvent' = "play" /\ pEvents' = pEvents + 1
    /\ pendingCalls' = IF pListeners THEN ResumeCalls(ctxState, pendingCalls)
                       ELSE pendingCalls
    /\ UNCHANGED <<pStage, pAudioUrl, pEnvironment, pListeners, ctxState,
                   segmentNodes, environmentNodes, pLog, pRenders>>

\* the element fires 'pause'; handleAudioPause (lines 81-85) runs if attached
Pause ==
    /\ pStage = "mounted" /\ HasElement(pAudioUrl) /\ elPlaying
    /\ pEvents < MaxEvents
    /\ elPlaying' = FALSE /\ lastEvent' = "pause" /\ pEvents' = pEvents + 1
    /\ pendingCalls' = IF pListeners THEN SuspendCalls(ctxState, pendingCalls)
                       ELSE pendingCalls
    /\ UNCHANGED <<pStage, pAudioUrl, pEnvironment, pListeners, ctxState,
                   segmentNodes, environmentNodes, pLog, pRenders>>

\* the element fires 'ended' after its last 'pause'; handleAudioEnded
\* (lines 87-91)
Ended ==
    /\ pStage = "mounted" /\ HasElement(pAudioUrl) /\ pListeners
    /\ lastEvent = "pause" /\ ~elPlaying
    /\ pEvents < MaxEvents
    /\ pEvents' = pEvents + 1
    /\ segmentNodes' = StopAllNodes(segmentNodes)
    /\ environmentNodes' = StopAllNodes(environmentNodes)
    /\ pLog' = Append(pLog, LogEntry("stopAll", segmentNodes', environmentNodes'))
    /\ UNCHANGED <<pStage, pAudioUrl, pEnvironment, pListeners, elPlaying, ctxState,
                   pendingCalls, lastEvent, pRenders>>

\* the oldest pending promise of the context settles
Settle ==
    /\ pendingCalls # <<>>
    /\ ctxState' = IF Head(pendingCalls) = "resume" THEN "running" ELSE "suspended"
    /\ pendingCalls' = Tail(pendingCalls)
    /\ UNCHANGED <<pStage, pAudioUrl, pEnvironment, pListeners, elPlaying, lastEvent,
                   segmentNodes, environmentNodes, pLog, pRenders, pEvents>>

PlayerNext ==
    \/ \E url \in AudioUrls, env \in Environments : Mount(url, env)
    \/ \E url \in AudioUrls, env \in Environments : PropsChange(url, env)
    \/ Unmount
    \/ Play
    \/ Pause
    \/ Ended
    \/ Settle

----------------------------------------------------------------------------
(* Two mixAudioSegments operations interleaved at their await points *)

(* mixAudioSegments keeps totalDuration, totalSamples, mixBuffer and the    *)
(* loop variable in locals; of the singleton it reads audioContext only.    *)
(* The caller's array is an object: two operations may be given the same    *)
(* one.  A step is the code of one operation between two awaits.            *)

Ops == {1, 2}

ConcPool ==
    { Seg(Zero, One, "a", None, None, None),
      Seg(Rat(1, 2), Rat(1, 2), "c", None, None, Opt(3, 10)) }

ConcOff ==
    /\ cArrays = <<>> /\ cArg = <<>> /\ cWorld = <<>> /\ cInput = <<>>
    /\ cPc = <<>> /\ cIdx = <<>> /\ cTotalDuration = <<>> /\ cTotalSamples = <<>>
    /\ cMix = <<>> /\ cFinal = <<>> /\ cResult = <<>> /\ cError = <<>>

ConcInit ==
    /\ cArrays \in [Ops -> SeqsUpTo(ConcPool, MaxConcSegs)]
    /\ cArg \in {<<1, 2>>, <<1, 1>>}
    /\ cArg = <<1, 1>> => cArrays[2] = cArrays[1]
    /\ cWorld \in Worlds
    /\ cInput = [p \in Ops |-> <<>>]
    /\ cPc = [p \in Ops |-> "idle"]
    /\ cIdx = [p \in Ops |-> 0]
    /\ cTotalDuration = [p \in Ops |-> Zero]
    /\ cTotalSamples = [p \in Ops |-> 0]
    /\ cMix = [p \in Ops |-> <<>>]
    /\ cFinal = [p \in Ops |-> <<>>]
    /\ cResult = [p \in Ops |-> NoResult]
    /\ cError = [p \in Ops |-> ""]

\* the array operation p works on
ConcSegments(p) == cArrays[cArg[p]]

\* lines 146-158
ConcEmpty(p) ==
    /\ cPc[p] = "idle"
    /\ Len(ConcSegments(p)) = 0
    /\ cInput' = [cInput EXCEPT ![p] = ConcSegments(p)]
    /\ cPc' = [cPc EXCEPT ![p] = "failed"]
    /\ cError' = [cError EXCEPT ![p] = "Aucun segment audio a mixer"]
    /\ UNCHANGED <<cArrays, cArg, cWorld, cIdx, cTotalDuration, cTotalSamples,
                   cMix, cFinal, cResult>>

\* lines 160-172
ConcSingle(p) ==
    /\ cPc[p] = "idle"
    /\ Len(ConcSegments(p)) = 1
    /\ cInput' = [cInput EXCEPT ![p] = ConcSegments(p)]
    /\ cPc' = [cPc EXCEPT ![p] = "done"]
    /\ cResult' = [cResult EXCEPT ![p] = SingleResult(ConcSegments(p)[1])]
    /\ UNCHANGED <<cArrays, cArg, cWorld, cIdx, cTotalDuration, cTotalSamples,
                   cMix, cFinal, cError>>

\* lines 174-202: sort the array object in place, allocate, issue the first fetch
ConcStart(p) ==
    /\ cPc[p] = "idle"
    /\ Len(ConcSegments(p)) >= 2
    /\ cInput' = [cInput EXCEPT ![p] = ConcSegments(p)]
    /\ cArrays' = [a \in Ops |-> IF a = cArg[p] THEN SortSegments(cArrays[a])
                                 ELSE cArrays[a]]
    /\ cTotalDuration' = [cTotalDuration EXCEPT ![p] = TotalDuration(cArrays'[cArg[p]])]
    /\ cTotalSamples' = [cTotalSamples EXCEPT ![p] = TotalSamples(cArrays'[cArg[p]])]
    /\ cMix' = [cMix EXCEPT ![p] = CreateBuffer(cTotalSamples'[p])]
    /\ cIdx' = [cIdx EXCEPT ![p] = 0]
    /\ cPc' = [cPc EXCEPT ![p] = "fetching"]
    /\ UNCHANGED <<cArg, cWorld, cFinal, cResult, cError>>

\* variant that accumulates into one buffer held by the singleton
ConcFetchOkSharedBuffer(p) ==
    /\ cPc[p] = "fetching"
    /\ cWorld[ConcSegments(p)[cIdx[p] + 1].audioUrl].ok
    /\ LET mixed == MixSegment(cMix[p], ConcSegments(p), cIdx[p],
                               cWorld[ConcSegments(p)[cIdx[p] + 1].audioUrl])
       IN  IF cIdx[p] + 1 < Len(ConcSegments(p))
           THEN /\ cMix' = [q \in Ops |-> IF cMix[q] = <<>> THEN cMix[q] ELSE mixed]
                /\ UNCHANGED <<cPc, cFinal>>
           ELSE /\ cMix' = [q \in Ops |-> IF cMix[q] = <<>> THEN cMix[q]
                                          ELSE NormalizeBuffer(mixed)]
                /\ cFinal' = [cFinal EXCEPT ![p] = ExportBytes(AsAudioBuffer(cMix'[p]))]
                /\ cPc' = [cPc EXCEPT ![p] = "exporting"]
    /\ cIdx' = [cIdx EXCEPT ![p] = cIdx[p] + 1]
    /\ UNCHANGED <<cArrays, cArg, cWorld, cInput, cTotalDuration, cTotalSamples,
                   cResult, cError>>

\* lines 202-250: the awaited fetch of p's segment cIdx[p] succeeded
ConcFetchOk(p) ==
    /\ cPc[p] = "fetching"
    /\ cWorld[ConcSegments(p)[cIdx[p] + 1].audioUrl].ok
    /\ LET mixed == MixSegment(cMix[p], ConcSegments(p), cIdx[p],
                               cWorld[ConcSegments(p)[cIdx[p] + 1].audioUrl])
       IN  IF cIdx[p] + 1 < Len(ConcSegments(p))
           THEN /\ cMix' = [cMix EXCEPT ![p] = mixed]
                /\ UNCHANGED <<cPc, cFinal>>
           ELSE /\ cMix' = [cMix EXCEPT ![p] = NormalizeBuffer(mixed)]
                /\ cFinal' = [cFinal EXCEPT ![p] = ExportBytes(AsAudioBuffer(cMix'[p]))]
                /\ cPc' = [cPc EXCEPT ![p] = "exporting"]
    /\ cIdx' = [cIdx EXCEPT ![p] = cIdx[p] + 1]
    /\ UNCHANGED <<cArrays, cArg, cWorld, cInput, cTotalDuration, cTotalSamples,
                   cResult, cError>>

\* lines 263-266: the awaited fetch of p's segment cIdx[p] threw
ConcFetchFail(p) ==
    /\ cPc[p] = "fetching"
    /\ ~cWorld[ConcSegments(p)[cIdx[p] + 1].audioUrl].ok
    /\ cPc' = [cPc EXCEPT ![p] = "failed"]
    /\ cError' = [cError EXCEPT ![p] = cWorld[ConcSegments(p)[cIdx[p] + 1].audioUrl].error]
    /\ UNCHANGED <<cArrays, cArg, cWorld, cInput, cIdx, cTotalDuration,
                   cTotalSamples, cMix, cFinal, cResult>>

\* lines 250-262: after the awaited export; the result holds the array object
ConcReturn(p) ==
    /\ cPc[p] = "exporting"
    /\ cResult' = [cResult EXCEPT ![p] =
                       [audioUrl |-> "blob:mix", duration |-> cTotalDuration[p],
                        segments |-> cArg[p]]]
    /\ cPc' = [cPc EXCEPT ![p] = "done"]
    /\ UNCHANGED <<cArrays, cArg, cWorld, cInput, cIdx, cTotalDuration,
                   cTotalSamples, cMix, cFinal, cError>>

ConcNext ==
    \E p \in Ops :
        \/ ConcEmpty(p)
        \/ ConcSingle(p)
        \/ ConcStart(p)
        \/ ConcFetchOk(p)
        \/ ConcFetchFail(p)
        \/ ConcReturn(p)

----------------------------------------------------------------------------
(* Specifications *)

Init ==
    MixInit /\ TimingOff /\ ExportOff /\ VoiceOff /\ MarkupOff /\ PlayerOff /\ ConcOff
Next ==
    MixNext
        /\ UNCHANGED <<timingVars, exportVars, voiceVars, markupVars, playerVars, concVars>>
Spec == Init /\ [][Next]_vars

ExportSpecInit ==
    MixOff /\ TimingOff /\ ExportInit /\ VoiceOff /\ MarkupOff /\ PlayerOff /\ ConcOff
ExportSpecNext ==
    ExportToBuffer
        /\ UNCHANGED <<mixVars, timingVars, voiceVars, markupVars, playerVars, concVars>>
ExportSpec == ExportSpecInit /\ [][ExportSpecNext]_vars

TimingSpecInit ==
    MixOff /\ TimingInit /\ ExportOff /\ VoiceOff /\ MarkupOff /\ PlayerOff /\ ConcOff
TimingSpecNext ==
    TimingCall
        /\ UNCHANGED <<mixVars, exportVars, voiceVars, markupVars, playerVars, concVars>>
TimingSpec == TimingSpecInit /\ [][TimingSpecNext]_vars

VoiceSpecInit ==
    MixOff /\ TimingOff /\ ExportOff /\ VoiceInit /\ MarkupOff /\ PlayerOff /\ ConcOff
VoiceSpecNext ==
    VoiceCall
        /\ UNCHANGED <<mixVars, timingVars, exportVars, markupVars, playerVars, concVars>>
VoiceSpec == VoiceSpecInit /\ [][VoiceSpecNext]_vars

MarkupSpecInit ==
    MixOff /\ TimingOff /\ ExportOff /\ VoiceOff /\ MarkupInit /\ PlayerOff /\ ConcOff
MarkupSpecNext ==
    MarkupCall
        /\ UNCHANGED <<mixVars, timingVars, exportVars, voiceVars, playerVars, concVars>>
MarkupSpec == MarkupSpecInit /\ [][MarkupSpecNext]_vars

PlayerSpecInit ==
    MixOff /\ TimingOff /\ ExportOff /\ VoiceOff /\ MarkupOff /\ PlayerInit /\ ConcOff
PlayerSpecNext ==
    PlayerNext
        /\ UNCHANGED <<mixVars, timingVars, exportVars, voiceVars, markupVars, concVars>>
PlayerSpec == PlayerSpecInit /\ [][PlayerSpecNext]_vars

ConcSpecInit ==
    MixOff /\ TimingOff /\ ExportOff /\ VoiceOff /\ MarkupOff /\ PlayerOff /\ ConcInit
ConcSpecNext ==
    ConcNext
        /\ UNCHANGED <<mixVars, timingVars, exportVars, voiceVars, markupVars, playerVars>>
ConcSpec == ConcSpecInit /\ [][ConcSpecNext]_vars

----------------------------------------------------------------------------
(* The whole general path on a given ordering, for comparing orderings *)

RECURSIVE MixAll(_, _, _, _)
MixAll(mix, s, i, w) ==
    IF i >= Len(s) THEN mix
    ELSE MixAll(MixSegment(mix, s, i, w[s[i + 1].audioUrl]), s, i + 1, w)

\* what lines 177-262 compute from the sorted list s when every fetch succeeds
\* (each intermediate buffer is bound once, as the code's locals are)
SortedOutcome(s, w) ==
    CHOOSE o \in
        { [samples |-> n, bytes |-> ExportBytes(AsAudioBuffer(n)),
           duration |-> TotalDuration(s)] :
            n \in { NormalizeBuffer(m) :
                      m \in {MixAll(CreateBuffer(TotalSamples(s)), s, 0, w)} } } : TRUE

\* the index permutations of a list
IndexOrders(s) == Permutations(1..Len(s))
Reordered(s, f) == [k \in 1..Len(s) |-> s[f[k]]]

\* f keeps segments of equal startTime in their relative order
KeepsTieOrder(s, f) ==
    \A j, k \in 1..Len(s) :
        (j < k /\ s[f[j]].startTime = s[f[k]].startTime) => f[j] < f[k]

ObservedOutcome ==
    [samples |-> mixBuffer, bytes |-> finalBuffer, duration |-> result.duration]

----------------------------------------------------------------------------
(* Claims on mixAudioSegments (specification Spec) *)

\* C1: an empty segment list always fails with an error: no result, no fetch,
\* no mix buffer, no encoded bytes and no output URL exist at any time
C1_EmptyInputFails ==
    input = <<>> =>
        /\ result = NoResult
        /\ fetchCount = 0
        /\ mixBuffer = <<>>
        /\ finalBuffer = <<>>
        /\ urlCount = 0
        /\ pc \in {"idle", "failed"}
        /\ (pc = "failed" => error # "")

C1_Witness == input = <<>> /\ pc = "failed" /\ error # ""

\* C2: one segment is returned as it is: its own audioUrl, its duration and the
\* one-element list, with no fetch, no mix buffer (so no fade and no
\* normalization), no encoding and no new URL
C2_SingleSegmentIdentity ==
    (Len(input) = 1 /\ pc # "idle") =>
        /\ pc = "done"
        /\ result # NoResult
        /\ result.audioUrl = input[1].audioUrl
        /\ result.duration = input[1].duration
        /\ result.segments = <<input[1]>>
        /\ fetchCount = 0
        /\ mixBuffer = <<>>
        /\ preNorm = <<>>
        /\ finalBuffer = <<>>
        /\ urlCount = 0

C2_Witness ==
    Len(input) = 1 /\ pc = "done" /\ input[1].startTime # Zero

\* the lists the general path works on after its sort, over a set of orderings
SortedLists(s, orders) == {SortSegments(Reordered(s, f)) : f \in orders}

\* C3 as stated: every ordering of the same segments, ties in startTime
\* included, gives the same samples, bytes and duration
C3_AnyOrderingSameOutput ==
    (pc = "done" /\ Len(input) >= 2) =>
        \A s \in SortedLists(input, IndexOrders(input)) :
            SortedOutcome(s, world) = ObservedOutcome

\* C3 amended: every ordering that keeps the segments of equal startTime in
\* the same relative order gives the same samples, bytes and duration; the
\* duration is the same for every ordering
C3_TieKeepingOrderingSameOutput ==
    (pc = "done" /\ Len(input) >= 2) =>
        /\ \A s \in SortedLists(input, {f \in IndexOrders(input) : KeepsTieOrder(input, f)}) :
              SortedOutcome(s, world) = ObservedOutcome
        /\ \A s \in SortedLists(input, IndexOrders(input)) :
              TotalDuration(s) = result.duration

C3_Witness ==
    /\ pc = "done" /\ Len(input) >= 3
    /\ input # segments
    /\ \E j, k \in 1..Len(input) : j < k /\ input[j].startTime = input[k].startTime

\* C4: once normalizeBuffer has run, every sample of both channels is at most
\* 0.9 in absolute value, so the encoder's clamp changes no sample
C4_NormalizedWithinTarget ==
    pc \in {"exporting", "done"} /\ mixBuffer # <<>> =>
        \A channel \in 1..2 : \A t \in 1..Len(mixBuffer[channel]) :
            /\ RLe(RAbs(mixBuffer[channel][t]), TargetLevel)
            /\ Clamp(mixBuffer[channel][t]) = mixBuffer[channel][t]

C4_Witness ==
    /\ pc = "exporting"
    /\ RLt(One, MaxValue(preNorm))
    /\ MaxValue(mixBuffer) = TargetLevel

\* the fetch of the segment at sorted position k has completed
FetchCompleted(k) ==
    k <= idx \/ (k = idx + 1 /\ pc # "fetching")

\* C5: when the fetch or decode of segment k fails the operation has failed
\* with that error at segment k: no result, no encoded bytes, no URL, the loop
\* did not go past k (no silent replacement) and exactly k fetches were issued
\* (no retry)
C5_DecodeFailureAbortsMix ==
    \A k \in 1..Len(segments) :
        (Len(input) >= 2 /\ pc # "idle" /\ FetchCompleted(k)
            /\ ~world[segments[k].audioUrl].ok) =>
            /\ pc = "failed"
            /\ error = world[segments[k].audioUrl].error
            /\ idx = k - 1
            /\ fetchCount = k
            /\ result = NoResult
            /\ finalBuffer = <<>>
            /\ urlCount = 0

C5_Witness ==
    /\ pc = "failed" /\ Len(input) >= 3 /\ idx = 2
    /\ MaxValue(mixBuffer) # Zero

----------------------------------------------------------------------------
(* Claims on calculateSegmentTiming (specification TimingSpec) *)

\* C6: with the default crossfade the first segment starts at 0 and each
\* next start time is the previous one plus the previous duration minus 0.3
C6_OverlapIsCrossfade ==
    (tPc = "done" /\ ~Truthy(tOptions.defaultCrossfade)) =>
        /\ (Len(tOutput) >= 1 => tOutput[1].startTime = Zero)
        /\ \A k \in 1..(Len(tOutput) - 1) :
              RSub(tOutput[k + 1].startTime, tOutput[k].startTime)
                  = RSub(tOutput[k].duration, Rat(3, 10))

C6_Witness ==
    /\ tPc = "done" /\ tOptions.defaultCrossfade = None
    /\ Len(tOutput) >= 3
    /\ tOutput[1].duration # tOutput[2].duration

\* C7 as stated: start times never decrease along the list
C7_StartTimesNonDecreasing ==
    tPc = "done" =>
        \A k \in 1..(Len(tOutput) - 1) :
            RLe(tOutput[k].startTime, tOutput[k + 1].startTime)

\* C8 as stated: startTime >= 0, duration > 0, fadeIn >= 0, fadeOut >= 0
C8_ScheduledRanges ==
    tPc = "done" =>
        \A k \in 1..Len(tOutput) :
            /\ RLe(Zero, tOutput[k].startTime)
            /\ RLt(Zero, tOutput[k].duration)
            /\ RLe(Zero, tOutput[k].fadeIn)
            /\ RLe(Zero, tOutput[k].fadeOut)

----------------------------------------------------------------------------
(* Claims on exportToBuffer (specification ExportSpec) *)

\* C9: the output has 44 + L*C*2 bytes and its header fields read back as
\* RIFF size 36 + L*C*2, fmt size 16, PCM tag 1, C channels, rate R, byte
\* rate R*C*2, block align C*2, 16 bits per sample, data size L*C*2
C9_HeaderLayout ==
    ePc = "done" =>
        LET dataLen == eBuffer.length * eBuffer.numberOfChannels * 2 IN
        /\ Len(eBytes) = 44 + dataLen
        /\ SubSeq(eBytes, 1, 4) = RiffTag
        /\ ReadU32(eBytes, 4) = 36 + dataLen
        /\ SubSeq(eBytes, 9, 12) = WaveTag
        /\ SubSeq(eBytes, 13, 16) = FmtTag
        /\ ReadU32(eBytes, 16) = 16
        /\ ReadU16(eBytes, 20) = 1
        /\ ReadU16(eBytes, 22) = eBuffer.numberOfChannels
        /\ ReadU32(eBytes, 24) = eBuffer.sampleRate
        /\ ReadU32(eBytes, 28) = eBuffer.sampleRate * eBuffer.numberOfChannels * 2
        /\ ReadU16(eBytes, 32) = eBuffer.numberOfChannels * 2
        /\ ReadU16(eBytes, 34) = 16
        /\ SubSeq(eBytes, 37, 40) = DataTag
        /\ ReadU32(eBytes, 40) = dataLen

C9_Witness ==
    /\ ePc = "done"
    /\ eBuffer.numberOfChannels = 2 /\ eBuffer.length >= 2
    /\ eBuffer.sampleRate = 44100
    /\ Len(eBytes) = 44 + eBuffer.length * 2 * 2

\* the 16-bit value the claim expects for sample x
ExpectedInt16(x) ==
    LET c == IF RLt(One, x) THEN One ELSE IF RLt(x, RInt(-1)) THEN RInt(-1) ELSE x
        n == c[1] * 32767
    IN  IF n >= 0 THEN n \div c[2] ELSE -((-n) \div c[2])

\* C10: slot 44 + (i*C + c)*2 holds trunc(clamp(x[c][i]) * 32767), within
\* [-32767, 32767]; every data byte is written by exactly one setInt16 call;
\* an all-zero buffer gives all-zero data bytes
C10_SampleEncoding ==
    ePc = "done" =>
        /\ \A c \in 0..(eBuffer.numberOfChannels - 1) : \A i \in 0..(eBuffer.length - 1) :
              LET v == ReadI16(eBytes, 44 + (i * eBuffer.numberOfChannels + c) * 2) IN
              /\ v = ExpectedInt16(eBuffer.data[c + 1][i + 1])
              /\ v \in (-32767)..32767
        /\ \A p \in 45..Len(eBytes) : eWrites[p] = 1
        /\ ((\A c \in 1..eBuffer.numberOfChannels : \A i \in 1..eBuffer.length :
                eBuffer.data[c][i] = Zero)
             => \A p \in 45..Len(eBytes) : eBytes[p] = 0)

C10_Witness ==
    /\ ePc = "done"
    /\ eBuffer.numberOfChannels = 2 /\ eBuffer.length = 2
    /\ eBuffer.data[1][1] = Rat(3, 2) /\ eBuffer.data[2][1] = Rat(-2, 1)
    /\ eBuffer.data[1][2] = Rat(-1, 3) /\ eBuffer.data[2][2] = Zero
    /\ ReadI16(eBytes, 44) = 32767 /\ ReadI16(eBytes, 46) = -32767
    /\ ReadI16(eBytes, 48) = -10922

----------------------------------------------------------------------------
(* Claims on the gain of a mixed segment (specification Spec) *)

\* segment k of the sorted list has been mixed, with no volume of its own
MixedAtDefaultVolume(k) ==
    k <= Len(applied) /\ segments[k].volume = None

\* the sample index floor(f * sampleRate) of the fade-in f of mixed segment k
FadeInEnd(k) == Floor(RMul(applied[k].fadeIn, RInt(SampleRate)))

\* the loop reached sample s of mixed segment k
Reached(k, s) == s < Len(applied[k].gains)

\* C11 as stated: at default volume the gain at sample 0 is 0 and the gain at
\* sample floor(f * sampleRate) is 1.0, whatever the buffer and the fade-out
C11_FadeInEndsAtFullGain ==
    \A k \in 1..Len(segments) :
        (MixedAtDefaultVolume(k) /\ RLt(Zero, applied[k].fadeIn)) =>
            /\ (Reached(k, 0) => applied[k].gains[1] = Zero)
            /\ (Reached(k, FadeInEnd(k)) => applied[k].gains[FadeInEnd(k) + 1] = One)

\* sample s of mixed segment k is not inside its fade-out ramp
BeforeFadeOut(k, s) ==
    RLe(RInt(s), RSub(RInt(applied[k].segmentSamples),
                      RMul(applied[k].fadeOut, RInt(SampleRate))))

\* C11 amended: the gain at sample 0 is 0; the gain at sample
\* floor(f * sampleRate) is 1.0 when f * sampleRate is a whole number and that
\* sample is not inside the fade-out ramp
C11_FadeInEndsAtFullGainOutsideFadeOut ==
    \A k \in 1..Len(segments) :
        (MixedAtDefaultVolume(k) /\ RLt(Zero, applied[k].fadeIn)) =>
            /\ (Reached(k, 0) => applied[k].gains[1] = Zero)
            /\ ((/\ Reached(k, FadeInEnd(k))
                 /\ RInt(FadeInEnd(k)) = RMul(applied[k].fadeIn, RInt(SampleRate))
                 /\ BeforeFadeOut(k, FadeInEnd(k)))
                => applied[k].gains[FadeInEnd(k) + 1] = One)

C11_Witness ==
    \E k \in 1..Len(applied) :
        /\ MixedAtDefaultVolume(k)
        /\ applied[k].fadeOut # Zero
        /\ FadeInEnd(k) >= 1
        /\ RInt(FadeInEnd(k)) = RMul(applied[k].fadeIn, RInt(SampleRate))
        /\ Reached(k, FadeInEnd(k)) /\ BeforeFadeOut(k, FadeInEnd(k))
        /\ applied[k].gains[1] = Zero
        /\ applied[k].gains[FadeInEnd(k) + 1] = One
        /\ applied[k].gains[applied[k].segmentSamples] # One

\* C14 as stated: the effective fade-out is the segment's own fadeOut whenever
\* it specifies one, 0 included; otherwise min(0.5, duration * 0.2) for a
\* segment that is not last in the sorted list and none for the last one
C14_EffectiveFadeOut ==
    \A k \in 1..Len(applied) :
        applied[k].fadeOut =
            (IF segments[k].fadeOut # None THEN segments[k].fadeOut[1]
             ELSE IF k < Len(segments)
                  THEN RMin(Rat(1, 2), RMul(segments[k].duration, Rat(1, 5)))
                  ELSE Zero)

\* C15 as stated: the base gain is the declared volume for every declared
\* value, 0 included (which silences the segment), and 1.0 only when no
\* volume is declared
C15_BaseGainIsDeclaredVolume ==
    \A k \in 1..Len(applied) :
        /\ applied[k].baseGain =
              (IF segments[k].volume # None THEN segments[k].volume[1] ELSE One)
        /\ (segments[k].volume = <<Zero>> =>
               \A s \in 1..Len(applied[k].gains) : applied[k].gains[s] = Zero)

----------------------------------------------------------------------------
(* Claims on the placement of mixed segments (specification Spec) *)

\* the mix buffer before normalization: the buffer being filled, or what was
\* handed to normalizeBuffer
BeforeNormalization ==
    IF pc \in {"exporting", "done"} THEN preNorm ELSE mixBuffer

\* what mixed segment k adds at index t (0-based) of channel c (0-based)
Contribution(k, c, t) ==
    LET buffer == world[segments[k].audioUrl]
        s == t - applied[k].startSample
        from == IF c < buffer.numberOfChannels THEN c ELSE buffer.numberOfChannels - 1
    IN  IF 0 <= s /\ s < buffer.length
        THEN RMul(buffer.data[from + 1][s + 1], applied[k].gains[s + 1])
        ELSE Zero

\* the sum of the contributions of the first k mixed segments
RECURSIVE ContributionSum(_, _, _)
ContributionSum(k, c, t) ==
    IF k = 0 THEN Zero
    ELSE RAdd(ContributionSum(k - 1, c, t), Contribution(k, c, t))

\* C16: before normalization every sample of both channels is the sum, over
\* the segments mixed so far whose placed buffer covers its index, of the
\* segment's sample times its gain; this holds after every segment, so a
\* later segment neither overwrites nor removes an earlier contribution
C16_MixIsSumOfContributions ==
    BeforeNormalization # <<>> =>
        /\ Len(BeforeNormalization) = 2
        /\ \A c \in 0..1 : \A t \in 0..(Len(BeforeNormalization[c + 1]) - 1) :
              BeforeNormalization[c + 1][t + 1] = ContributionSum(Len(applied), c, t)

\* three segments mixed, two of them overlapping at an index where both are
\* audible and the two channels differ
C16_Witness ==
    /\ pc = "exporting" /\ Len(applied) = 3
    /\ \E t \in 0..(totalSamples - 1) : \E j, k \in 1..3 :
          /\ j < k
          /\ Contribution(j, 0, t) # Zero /\ Contribution(k, 0, t) # Zero
          /\ preNorm[1][t + 1] # preNorm[2][t + 1]
          /\ preNorm[1][t + 1] = ContributionSum(3, 0, t)

\* the mix-buffer indices at which line 241 accumulated for mixed segment k
WriteIndices(k) ==
    {applied[k].startSample + s : s \in 0..(Len(applied[k].gains) - 1)}

\* C17 as stated: every index at which the mixer accumulates a sample lies
\* within 0 .. totalSamples - 1, whatever the list and the buffer lengths
C17_WritesWithinBuffer ==
    \A k \in 1..Len(applied) :
        \A t \in WriteIndices(k) : 0 <= t /\ t <= totalSamples - 1

\* D of the claim: the largest startTime + duration of a list
ScheduleEnd(s) ==
    CHOOSE d \in {RAdd(s[k].startTime, s[k].duration) : k \in 1..Len(s)} :
        \A k \in 1..Len(s) : RLe(RAdd(s[k].startTime, s[k].duration), d)

\* n = ceil(x): the least whole number not below x
IsCeilOf(n, x) == RLe(x, RInt(n)) /\ RLt(RInt(n - 1), x)

\* C18: on the general path the mix buffer has 2 channels of
\* ceil(D * sampleRate) frames each, D being the largest startTime + duration
\* of the list, and the result's duration is D, whatever the decoded buffers
C18_MixBufferSize ==
    (Len(input) >= 2 /\ pc # "idle") =>
        /\ Len(mixBuffer) = 2
        /\ \A c \in 1..2 :
              IsCeilOf(Len(mixBuffer[c]), RMul(ScheduleEnd(input), RInt(SampleRate)))
        /\ (pc \in {"exporting", "done"} =>
              /\ Len(preNorm) = 2
              /\ \A c \in 1..2 : Len(preNorm[c]) = Len(mixBuffer[c]))
        /\ (pc = "done" => result.duration = ScheduleEnd(input))

\* the schedule ends at 0.55 s (5.5 frames) and a decoded buffer is longer
C18_Witness ==
    /\ pc = "done" /\ Len(input) >= 2
    /\ result.duration = Rat(11, 20)
    /\ Len(mixBuffer[1]) = 6 /\ Len(mixBuffer[2]) = 6
    /\ \E k \in 1..Len(applied) : applied[k].segmentSamples > 6

----------------------------------------------------------------------------
(* Claims on normalizeBuffer and on the returned list (specification Spec) *)

\* the largest absolute value among the samples of both channels
PeakAbs(mix) ==
    LET all == {RAbs(mix[c][t]) : c \in 1..2, t \in 1..Len(mix[1])} \cup {Zero}
    IN  CHOOSE m \in all : \A x \in all : RLe(x, m)

\* the (sample before, sample after) pairs of a normalizeBuffer call
BeforeAfter ==
    {<<preNorm[c][t], mixBuffer[c][t]>> : c \in 1..2, t \in 1..Len(preNorm[1])}

SignOf(x) == IF RLt(x, Zero) THEN -1 ELSE IF RLt(Zero, x) THEN 1 ELSE 0

\* C19: normalizeBuffer leaves the buffer unchanged when the peak over all
\* channels is at most 0.9; otherwise every sample of every channel is
\* multiplied by the one factor 0.9 / peak, the new peak is 0.9, and the sign
\* of every sample and the ratio of any two samples are preserved
C19_NormalizeScalesUniformly ==
    (Len(input) >= 2 /\ pc \in {"exporting", "done"}) =>
        IF RLe(PeakAbs(preNorm), Rat(9, 10))
        THEN mixBuffer = preNorm
        ELSE /\ \A p \in BeforeAfter :
                  /\ p[2] = RMul(p[1], RDiv(Rat(9, 10), PeakAbs(preNorm)))
                  /\ SignOf(p[2]) = SignOf(p[1])
             /\ \A p, q \in BeforeAfter : RMul(p[2], q[1]) = RMul(q[2], p[1])
             /\ PeakAbs(mixBuffer) = Rat(9, 10)
             /\ Len(mixBuffer[1]) = Len(preNorm[1])
             /\ Len(mixBuffer[2]) = Len(preNorm[2])

\* a scaled mix whose channels have different peaks and a negative sample
C19_Witness ==
    /\ pc = "exporting"
    /\ RLt(Rat(9, 10), PeakAbs(preNorm))
    /\ PeakOf(preNorm[1], 1, Zero) # PeakOf(preNorm[2], 1, Zero)
    /\ \E p \in BeforeAfter : RLt(p[1], Zero) /\ RLt(p[2], Zero) /\ p[1] # p[2]
    /\ PeakAbs(mixBuffer) = Rat(9, 10)

\* C20: on the general path the returned list is a permutation of the input
\* list in non-decreasing startTime order, segments of equal startTime being
\* in their input order
C20_ReturnedListStablySorted ==
    (pc = "done" /\ Len(input) >= 2) =>
        \E f \in IndexOrders(input) :
            /\ result.segments = Reordered(input, f)
            /\ \A j, k \in 1..Len(input) :
                  j < k =>
                    /\ RLe(input[f[j]].startTime, input[f[k]].startTime)
                    /\ (input[f[j]].startTime = input[f[k]].startTime => f[j] < f[k])

\* a reordered list of three with two different segments of equal startTime
C20_Witness ==
    /\ pc = "done" /\ Len(input) = 3
    /\ result.segments # input
    /\ \E j, k \in 1..3 :
          /\ j < k /\ input[j] # input[k]
          /\ input[j].startTime = input[k].startTime
          /\ RLt(input[3].startTime, input[j].startTime)

----------------------------------------------------------------------------
(* Claims on the estimates of calculateSegmentTiming (specification          *)
(* TimingSpec)                                                             *)

\* the rate table of the claim
ClaimedCharsPerSecond(rate) ==
    CASE rate = "tres lent" -> 10
      [] rate = "lent" -> 12
      [] rate = "modere" -> 15
      [] rate = "rapide" -> 18
      [] OTHER -> 13

\* the number of sentence-terminal marks among the first n characters
RECURSIVE TerminalMarks(_, _)
TerminalMarks(text, n) ==
    IF n = 0 THEN 0
    ELSE TerminalMarks(text, n - 1)
         + (IF text[n] = "." \/ text[n] = "!" \/ text[n] = "?" \/ text[n] = "ellipsis"
            THEN 1 ELSE 0)

\* C12: each duration is textLength / charsPerSecond + 0.3 * pauseCount, with
\* 10, 12, 15, 18 characters per second for the very-slow, slow, moderate and
\* fast rates and 13 for any other or missing rate, pauseCount being the
\* number of sentence-terminal punctuation marks of the text
C12_DurationEstimate ==
    tPc = "done" =>
        /\ Len(tOutput) = Len(tInput)
        /\ \A k \in 1..Len(tInput) :
              tOutput[k].duration =
                  RAdd(Rat(Len(tInput[k].segment),
                           ClaimedCharsPerSecond(tInput[k].speechRate)),
                       RMul(Rat(3, 10),
                            RInt(TerminalMarks(tInput[k].segment,
                                               Len(tInput[k].segment)))))

C12_Witness ==
    /\ tPc = "done" /\ Len(tInput) = 1
    /\ tInput[1].speechRate = "modere"
    /\ tInput[1].segment = <<"a", "!", "?">>
    /\ tOutput[1].duration = Rat(4, 5)

\* C13 as stated: with the default options a segment's own fadeIn and fadeOut
\* are kept whenever it specifies them, 0 included, and 0.15 and 0.2 are
\* assigned only when it does not specify them
C13_OwnFadesKept ==
    (tPc = "done" /\ tOptions.defaultFadeIn = None /\ tOptions.defaultFadeOut = None) =>
        \A k \in 1..Len(tOutput) :
            /\ tOutput[k].fadeIn =
                  (IF tInput[k].fadeIn # None THEN tInput[k].fadeIn[1] ELSE Rat(3, 20))
            /\ tOutput[k].fadeOut =
                  (IF tInput[k].fadeOut # None THEN tInput[k].fadeOut[1] ELSE Rat(1, 5))

----------------------------------------------------------------------------
(* Claims on getVoiceSettings (specification VoiceSpec) *)

\* the base entry of the claim: the entry of the emotion, or the entry of
\* 'sensuel' when the emotion is not one of the six of the table
ClaimedBase(emotion) ==
    IF emotion \in {"sensuel", "excite", "jouissance", "murmure", "intense", "doux"}
    THEN BaseSettings[emotion]
    ELSE BaseSettings["sensuel"]

Between(x, lo, hi) == IF RLt(x, lo) THEN lo ELSE IF RLt(hi, x) THEN hi ELSE x

\* C21 as stated: for every emotion string and every analysis, stability is
\* clamp(base.stability * (1 - intensity * 0.3), 0.3, 0.9) and similarity_boost
\* is clamp(base.similarity_boost + emotionalProgression * 0.15, 0.6, 1.0),
\* base being the emotion's entry or the 'sensuel' entry for an emotion that
\* is not in the table; both lie within their ranges
C21_VoiceSettingsClamped ==
    vPc = "done" =>
        /\ vSettings.stability # NaN
        /\ vSettings.similarity_boost # NaN
        /\ vSettings.stability =
              Between(RMul(ClaimedBase(vEmotion).stability,
                           RSub(One, RMul(vAnalysis.intensity, Rat(3, 10)))),
                      Rat(3, 10), Rat(9, 10))
        /\ vSettings.similarity_boost =
              Between(RAdd(ClaimedBase(vEmotion).similarity_boost,
                           RMul(vAnalysis.emotionalProgression, Rat(15, 100))),
                      Rat(6, 10), One)
        /\ RLe(Rat(3, 10), vSettings.stability)
        /\ RLe(vSettings.stability, Rat(9, 10))
        /\ RLe(Rat(6, 10), vSettings.similarity_boost)
        /\ RLe(vSettings.similarity_boost, One)

----------------------------------------------------------------------------
(* Claims on addBreathingAndPauses (specification MarkupSpec) *)

TokenAt(text, p) == IF p >= 1 /\ p <= Len(text) THEN text[p] ELSE Punct("")

IsBreakOpener(text, p) ==
    TokenAt(text, p) = Punct("<") /\ TokenAt(text, p + 1) = Word("break")

BreakOpeners(text) == {p \in 1..Len(text) : IsBreakOpener(text, p)}

\* the duration of the complete directive <break time="...ms"/> that starts
\* at position p, NaN when no complete directive starts there
PauseAt(text, p) ==
    IF /\ IsBreakOpener(text, p)
       /\ TokenAt(text, p + 2) = Space
       /\ TokenAt(text, p + 3) = Word("time")
       /\ TokenAt(text, p + 4) = Punct("=\"")
       /\ TokenAt(text, p + 5).k = "d"
    THEN IF TokenAt(text, p + 6) = Word("ms") /\ TokenAt(text, p + 7) = Punct("\"/>")
         THEN RInt(TokenAt(text, p + 5).n)
         ELSE IF /\ TokenAt(text, p + 6) = Dot
                 /\ TokenAt(text, p + 7).k = "f"
                 /\ TokenAt(text, p + 8) = Word("ms")
                 /\ TokenAt(text, p + 9) = Punct("\"/>")
              THEN RAdd(RInt(TokenAt(text, p + 5).n),
                        Rat(TokenAt(text, p + 7).n, TokenAt(text, p + 7).d))
              ELSE NaN
    ELSE NaN

\* a '.' of the text, as opposed to the decimal point of a printed number
IsFullStop(text, p) == text[p] = Dot /\ TokenAt(text, p - 1).k # "d"

\* every substitution inserts the pause that belongs to its punctuation mark
PausesScaledFrom(base) ==
    /\ \A p \in BreakOpeners(sStages.ellipses) :
           PauseAt(sStages.ellipses, p) = RMul(base, Rat(12, 10))
    /\ \A p \in 1..Len(sStages.sentences) :
           /\ sStages.sentences[p] = Bang
                  => PauseAt(sStages.sentences, p + 1) = RMul(base, Rat(15, 10))
           /\ sStages.sentences[p] = Quest
                  => PauseAt(sStages.sentences, p + 1) = RMul(base, Rat(11, 10))
           /\ IsFullStop(sStages.sentences, p)
                  => PauseAt(sStages.sentences, p + 1) = base
    /\ \A p \in 1..Len(sStages.commas) :
           sStages.commas[p] = Comma
               => PauseAt(sStages.commas, p + 1) = RMul(base, Rat(7, 10))

InUnitInterval(x) == RLe(Zero, x) /\ RLe(x, One)

\* C22 (as stated): for every intensity in [0,1] the base pause is
\* 1000ms + 700ms * intensity, and the pauses are base*1.5 after '!',
\* base*1.1 after '?', base*1.2 for an ellipsis, base*0.7 after a comma and
\* base after a full stop.
C22_PausesScaleWithIntensity ==
    (sPc = "done" /\ InUnitInterval(sAnalysis.intensity))
        => PausesScaledFrom(RAdd(RInt(1000), RMul(sAnalysis.intensity, RInt(700))))

\* C22 (amended): for every intensity in [0,1] the base pause is
\* min(1500ms, 1000ms + 700ms * intensity), and each substitution inserts a
\* pause of base*1.5 after '!', base*1.1 after '?', base*1.2 for an
\* ellipsis, base*0.7 after a comma and base after a full stop.
C22_PausesScaleWithCappedIntensity ==
    (sPc = "done" /\ InUnitInterval(sAnalysis.intensity))
        => PausesScaledFrom(RMin(RInt(1500),
               RAdd(RInt(1000), RMul(sAnalysis.intensity, RInt(700)))))

\* a call at intensity 1 on a text with an ellipsis and an exclamation mark
C22_Witness ==
    /\ sPc = "done"
    /\ sAnalysis.intensity = One
    /\ sText = <<Word("oui"), Dot, Dot, Dot, Space, Word("oui"), Bang>>
    /\ PauseAt(sStages.sentences, Len(sStages.sentences) - 7) = RInt(2250)

\* the opening tag <prosody pitch="..." rate="..."> for a table entry
ProsodyOpenTag(pattern) ==
    <<Punct("<"), Word("prosody"), Space>> \o PitchAttr(pattern.pitch) \o <<Space>>
        \o RateAttr(pattern.rate) \o <<Punct(">")>>

StartsWith(text, prefix) ==
    Len(text) >= Len(prefix) /\ SubSeq(text, 1, Len(prefix)) = prefix

\* C23: for each of the five non-neutral contextual moods the prosody
\* directive wrapped around the segment carries the pitch and the rate of
\* that mood's entry in contextualMoodPatterns.
C23_ProsodyFromMoodTable ==
    (sPc = "done" /\ sAnalysis.contextualMood \in DOMAIN ContextualMoodPatterns)
        => /\ StartsWith(sStages.wrapped,
                         ProsodyOpenTag(ContextualMoodPatterns[sAnalysis.contextualMood]))
           /\ sStages.wrapped[Len(sStages.wrapped)] = Punct(">")

RECURSIVE CountEllipses(_, _)
CountEllipses(text, k) ==
    IF k + 2 > Len(text) THEN 0
    ELSE IF text[k] = Dot /\ text[k + 1] = Dot /\ text[k + 2] = Dot
         THEN 1 + CountEllipses(text, k + 3)
         ELSE CountEllipses(text, k + 1)

CountOf(text, marks) == Cardinality({p \in 1..Len(text) : text[p] \in marks})

\* one pause per ellipsis, per remaining '.', '!' or '?' and per comma
ExpectedPauses(text) ==
    CountEllipses(text, 1)
        + (CountOf(text, {Dot, Bang, Quest}) - 3 * CountEllipses(text, 1))
        + CountOf(text, {Comma})

\* C24: the returned markup contains exactly one pause directive per
\* ellipsis, per remaining '.', '!' or '?' and per comma of the
\* whitespace-normalized input, and every directive is complete: no later
\* pass altered or split a directive inserted by an earlier one.
C24_OnePausePerMark ==
    sPc = "done"
        => /\ Cardinality(BreakOpeners(sStages.returned)) = ExpectedPauses(CleanText(sText))
           /\ \A p \in BreakOpeners(sStages.returned) : PauseAt(sStages.returned, p) # NaN

----------------------------------------------------------------------------
(* Claims on the player (specification PlayerSpec) *)

Positions(op) == {k \in 1..Len(pLog) : pLog[k].op = op}

C26_ContextFollowsLastEvent ==
    pendingCalls = <<>>
        => /\ lastEvent = "play" => ctxState = "running"
           /\ lastEvent = "pause" => ctxState = "suspended"

----------------------------------------------------------------------------
(* Claims on interleaved operations (specification ConcSpec) *)

\* the mix buffer of an operation run alone on the sorted list s, after its
\* first n segments were mixed
RECURSIVE PrefixMix(_, _, _)
PrefixMix(s, n, w) ==
    IF n = 0 THEN CreateBuffer(TotalSamples(s))
    ELSE MixSegment(PrefixMix(s, n - 1, w), s, n - 1, w[s[n].audioUrl])

Undecodables(s, w) == {k \in 1..Len(s) : ~w[s[k].audioUrl].ok}
Smallest(S) == CHOOSE k \in S : \A j \in S : k <= j

\* status, error, samples, bytes, duration and segment list of
\* mixAudioSegments run alone on the list `list`
AloneOutcome(list, w) ==
    LET s == SortSegments(list) IN
    IF Len(list) = 0
    THEN [status |-> "failed", error |-> "Aucun segment audio a mixer",
          samples |-> <<>>, bytes |-> <<>>, duration |-> Zero, segments |-> <<>>]
    ELSE IF Len(list) = 1
    THEN [status |-> "done", error |-> "", samples |-> <<>>, bytes |-> <<>>,
          duration |-> list[1].duration, segments |-> list]
    ELSE IF Undecodables(s, w) # {}
    THEN [status |-> "failed", error |-> w[s[Smallest(Undecodables(s, w))].audioUrl].error,
          samples |-> <<>>, bytes |-> <<>>, duration |-> Zero, segments |-> <<>>]
    ELSE [status |-> "done", error |-> "",
          samples |-> SortedOutcome(s, w).samples,
          bytes |-> SortedOutcome(s, w).bytes,
          duration |-> SortedOutcome(s, w).duration,
          segments |-> s]

\* what operation p returned or threw
ConcOutcome(p) ==
    [status |-> cPc[p], error |-> cError[p],
     samples |-> IF cPc[p] = "done" THEN cMix[p] ELSE <<>>,
     bytes |-> cFinal[p],
     duration |-> IF cPc[p] = "done" THEN cResult[p].duration ELSE Zero,
     segments |-> IF cPc[p] # "done" THEN <<>>
                  ELSE IF Len(cInput[p]) = 1 THEN cResult[p].segments
                  ELSE cArrays[cResult[p].segments]]

\* C27: when two operations are interleaved at their await points, each one
\* accumulates into its own mix buffer only (between two awaits the buffer
\* is what the operation run alone has after the same number of segments)
\* and returns exactly the samples, duration and segment list it would
\* return when run alone.
C27_InterleavedAsAlone ==
    \A p \in Ops :
        /\ cPc[p] = "fetching"
               => cMix[p] = PrefixMix(SortSegments(cInput[p]), cIdx[p], cWorld)
        /\ cPc[p] \in {"done", "failed"}
               => ConcOutcome(p) = AloneOutcome(cInput[p], cWorld)

\* both operations are between two awaits of their loops, each with one
\* segment accumulated, on different lists
C27_Witness ==
    /\ cPc[1] = "fetching" /\ cIdx[1] = 1
    /\ cPc[2] = "fetching" /\ cIdx[2] = 1
    /\ cInput[1] # cInput[2]
    /\ cMix[1] # cMix[2]
    /\ MaxValue(cMix[1]) # Zero /\ MaxValue(cMix[2]) # Zero

----------------------------------------------------------------------------
(* Claim on the scheduler's independence of the emotional tone             *)
(* (specification TimingSpec)                                              *)

\* the lists that differ from segs at most in emotional tone, environment
\* and volume
ToneVariants(segs) ==
    { [k \in 1..Len(segs) |-> WithTone(segs[k], f[k])] :
        f \in [1..Len(segs) -> ToneChoices] }

\* startTime, duration, fadeIn, fadeOut of every segment and the overlap of
\* every segment with the next one
Schedule(out) ==
    [times |-> [k \in 1..Len(out) |->
                   <<out[k].startTime, out[k].duration, out[k].fadeIn, out[k].fadeOut>>],
     overlaps |-> [k \in 1..(Len(out) - 1) |->
                      RSub(RAdd(out[k].startTime, out[k].duration),
                           out[k + 1].startTime)]]

\* C28: the schedule (every startTime, duration, fadeIn, fadeOut and the
\* overlap between consecutive segments) is the same for two input lists that
\* differ only in the segments' emotional tone, environment or volume.
C28_ScheduleIgnoresTone ==
    tPc = "done"
        => \A other \in ToneVariants(tInput) :
               Schedule(CalculateSegmentTiming(other, tOptions)) = Schedule(tOutput)

\* a scheduled list and a variant of it whose emotion transition is another
C28_Witness ==
    /\ tPc = "done"
    /\ Len(tInput) >= 2
    /\ tInput[1].emotionalTone = "excite"
    /\ \E other \in ToneVariants(tInput) :
           TransitionDuration(other[1].emotionalTone, other[2].emotionalTone)
               # TransitionDuration(tInput[1].emotionalTone, tInput[2].emotionalTone)

----------------------------------------------------------------------------
(* Claims on the gain range and on the caller's array (specification Spec) *)

\* the volume of a segment: the declared one, 1.0 when none is declared
DeclaredVolume(seg) == IF seg.volume # None THEN seg.volume[1] ELSE One

\* C29: for every segment with volume v >= 0, positive fadeIn and positive
\* effective fadeOut, every per-sample gain g satisfies 0 <= g <= v.
C29_GainWithinVolume ==
    \A k \in 1..Len(applied) :
        (/\ RLe(Zero, DeclaredVolume(segments[k]))
         /\ RLt(Zero, applied[k].fadeIn)
         /\ RLt(Zero, applied[k].fadeOut))
            => \A s \in 1..Len(applied[k].gains) :
                   /\ RLe(Zero, applied[k].gains[s])
                   /\ RLe(applied[k].gains[s], DeclaredVolume(segments[k]))

\* C30: mixAudioSegments leaves the caller's array unchanged in element order
\* and in every segment field, when it returns a result and when it fails.
C30_CallerArrayUnchanged == segments = input

====
